---- MODULE Spec2Model ----
(***************************************************************************)
(* State-machine model of @nexart/ui-renderer: the sandboxed script        *)
(* execution, the budget arbiter and the animation loops of                *)
(*   - PreviewEngine            (src/src/preview/preview-engine.ts)        *)
(*   - renderCodeModeSystem     (src/src/preview/code-renderer.ts)         *)
(*   - renderUnifiedSystem      (src/unnamed/part_004)                     *)
(* The browser is modelled by a clock (performance.now) and by the         *)
(* animation-frame callback list (requestAnimationFrame /                  *)
(* cancelAnimationFrame): callbacks registered during one display frame    *)
(* run in the next one, in registration order, and host code (the calls    *)
(* of the public API) runs between display frames.                         *)
(***************************************************************************)
EXTENDS Integers, Sequences, FiniteSets, TLC

VARIABLES
  host,                   \* which entry point the host page drives
  now,                    \* performance.now(), in ms
  rafSeq,                 \* last id returned by requestAnimationFrame
  rafQueue,               \* callbacks registered for the next display frame
  frameQueue,             \* callbacks of the current display frame, not yet run
  tickLog,                \* the steps of the last handler, in execution order
  buffer,                 \* per canvas: the last operation on its pixel buffer
  engine,                 \* the PreviewEngine objects
  activePreviewRenderer,  \* module-level variable of preview-engine.ts
  renderer,               \* the closures created by renderCodeModeSystem
  activeRendererInstance, \* module-level variable of code-renderer.ts
  unified,                \* the closure created by renderUnifiedSystem
  call,                   \* a library function called on its own: arguments, result
  lastCall                \* how the last handler ended: the exception that left it
                          \* and the error it caught and reported with console.warn

pageVars == <<host, now, rafSeq, rafQueue, frameQueue, tickLog, buffer,
              engine, activePreviewRenderer, renderer, activeRendererInstance, unified,
              lastCall>>

vars == <<pageVars, call>>

(***************************************************************************)
(* Bounds of the model                                                     *)
(***************************************************************************)
MaxRaf == 6               \* animation frames requested in one run
FrameMs == {50}           \* ms between two display frames
MaxVaried == 2            \* chosen elements at the head of a vars array
MaxIdle == 200            \* the clock up to which display frames without callbacks are taken
Engines == {1, 2}         \* PreviewEngine objects the host may construct
Renderers == {1, 2}       \* calls of renderCodeModeSystem the host may make
Canvases == {"A", "B"}    \* drawing surfaces

(***************************************************************************)
(* Program constants                                                       *)
(***************************************************************************)
MAX_FRAMES == 1800
MAX_TOTAL_TIME_MS == 300000
DEGRADE_STRIDE == 2
MAX_DIMENSION == 900
VAR_COUNT == 10           \* the length of the VAR vector
DEFAULT_TOTAL_FRAMES == 120
FRAME_INTERVAL_MS == 125

Null == 0                 \* null for object references and frame ids

(***************************************************************************)
(* JavaScript values.  An optional number is <<>> (undefined) or <<n>>.    *)
(***************************************************************************)
Undefined == <<>>
Coalesce(x, d) == IF x = Undefined THEN d ELSE x[1]     \* x ?? d

\* every value a script identifier can be bound to has the same shape:
\*   k    "undefined" | "number" | "native" (a callback of the package)
\*        | "function" (a function of the script)
\*   n    the name of the function / callback
\*   env  how a script function reads frameCount: "params" (the value bound
\*        to the parameter when the compiled function was called) or
\*        "scope" (the Proxy scope: the runtime object, at the time of the read)
\*   fc   the value of the parameter frameCount (env = "params")
\*   thr  the body of the function throws
Val(k, n, env, fc, thr) == [k |-> k, n |-> n, env |-> env, fc |-> fc, thr |-> thr]
UndefinedVal == Val("undefined", "", "", 0, FALSE)
NullFn == Val("null", "", "", 0, FALSE)
NumberVal(x) == Val("number", "", "", x, FALSE)
NativeFn(n) == Val("native", n, "", 0, FALSE)
IsCallable(v) == v.k \in {"native", "function"}

(***************************************************************************)
(* Script text, by what matters to compilation:                            *)
(*   decl  the top-level function declarations among setup / draw          *)
(*   top   the top-level statement: "none"; "throw" (a statement that      *)
(*         throws, or a syntax error); "draw(fn)" (a call of the           *)
(*         identifier draw with a function expression); "setup(fn)" (the   *)
(*         same with the identifier setup)                                 *)
(*   thr   the body of the script's draw function throws                   *)
(***************************************************************************)
Script(decl, top, thr) == [decl |-> decl, top |-> top, thr |-> thr]

(***************************************************************************)
(* canvas-scaler: the buffer of the canvas is capped at MAX_DIMENSION.     *)
(* A scale factor is the fraction <<numerator, denominator>>; the          *)
(* arithmetic is exact.                                                    *)
(***************************************************************************)
Max(a, b) == IF a >= b THEN a ELSE b

\* Math.round(n / d), for n >= 0 and d > 0
Round(n, d) == (2 * n + d) \div (2 * d)

SameFactor(p, q) == p[1] * q[2] = q[1] * p[2]

\* a variant of calculateScaledDimensions that truncates instead of rounding
calculateScaledDimensionsTrunc(width, height) ==
  LET maxDim == Max(width, height)
  IN IF maxDim <= MAX_DIMENSION
       THEN [renderWidth |-> width, renderHeight |-> height,
             originalWidth |-> width, originalHeight |-> height,
             scaleFactor |-> <<1, 1>>, wasScaled |-> FALSE]
       ELSE [renderWidth |-> (width * MAX_DIMENSION) \div maxDim,
             renderHeight |-> (height * MAX_DIMENSION) \div maxDim,
             originalWidth |-> width, originalHeight |-> height,
             scaleFactor |-> <<MAX_DIMENSION, maxDim>>, wasScaled |-> TRUE]

calculateScaledDimensions(width, height) ==
  LET maxDim == Max(width, height)
  IN IF maxDim <= MAX_DIMENSION
       THEN [renderWidth |-> width, renderHeight |-> height,
             originalWidth |-> width, originalHeight |-> height,
             scaleFactor |-> <<1, 1>>, wasScaled |-> FALSE]
       ELSE [renderWidth |-> Round(width * MAX_DIMENSION, maxDim),
             renderHeight |-> Round(height * MAX_DIMENSION, maxDim),
             originalWidth |-> width, originalHeight |-> height,
             scaleFactor |-> <<MAX_DIMENSION, maxDim>>, wasScaled |-> TRUE]

\* the scale of the transform of the 2D context after reapplyContextScale,
\* the context coming fresh (identity) from the resize of the canvas
reapplyContextScale(dimensions) ==
  IF ~dimensions.wasScaled THEN <<1, 1>>
  ELSE <<dimensions.renderWidth, dimensions.originalWidth>>

(***************************************************************************)
(* JavaScript values as the VAR code sees them: t is what matters of the   *)
(* type ("number" is a finite number, with value n; NaN and the infinities *)
(* have typeof 'number' and are not finite), items the elements of an      *)
(* array, frozen whether Object.freeze has been applied to it.             *)
(***************************************************************************)
Js(t, n) == [t |-> t, n |-> n, items |-> <<>>, frozen |-> FALSE]
Num(n) == Js("number", n)
JsUndefined == Js("undefined", 0)
Array(items) == [t |-> "array", n |-> 0, items |-> items, frozen |-> FALSE]
TypeofNumber(v) == v.t \in {"number", "NaN", "Infinity", "-Infinity"}
IsFinite(v) == v.t = "number"
Truthy(v) ==
  CASE v.t \in {"undefined", "null", "NaN"} -> FALSE
    [] v.t = "number" -> v.n # 0
    [] v.t = "string" -> v.n # 0          \* n is the length of the string
    [] OTHER -> TRUE
Min(a, b) == IF a <= b THEN a ELSE b
Zeros(k) == [i \in 1..k |-> Num(0)]

\* normalizeVars(vars) of the preview runtime; the result as a sequence
normalizeVars(given) ==
  IF ~Truthy(given) \/ given.t # "array" THEN Zeros(VAR_COUNT)
  ELSE
    LET result == [i \in 1..Min(Len(given.items), VAR_COUNT) |->
                     LET v == given.items[i]
                     IN IF TypeofNumber(v) /\ IsFinite(v)
                          THEN Num(Max(0, Min(100, v.n)))
                          ELSE Num(0)]
    IN result \o Zeros(VAR_COUNT - Len(result))    \* while (result.length < 10)

\* a variant of frozenVars without Object.freeze
copiedVars(given) == Array(normalizeVars(given))

\* const frozenVars = Object.freeze([...normalizedVars])
frozenVars(given) == [Array(normalizeVars(given)) EXCEPT !.frozen = TRUE]

\* array[i] = v in script code that is not strict: ignored on a frozen array
\* and for an index the model does not keep
ArraySet(array, i, v) ==
  IF array.frozen \/ i \notin 1..Len(array.items) THEN array
  ELSE [array EXCEPT !.items[i] = v]

(***************************************************************************)
(* system.ts: validation of a code system.  The input is                   *)
(* {type: 'code', mode: 'static', seed: 1, source: <not empty>, width,     *)
(* height, vars}; an error is the string pushed to errors, kept as its     *)
(* bracketed prefix (none in this file) and the text after it.             *)
(***************************************************************************)
Error(prefix, text) == [prefix |-> prefix, text |-> text]

CodeSystem(width, height, given) == [type |-> "code", width |-> width, height |-> height, vars |-> given]

validateCodeSystem(input) ==
  (IF input.width < 1 \/ input.width > 4096
     THEN <<Error("", "width is required and must be between 1 and 4096")>> ELSE <<>>)
  \o
  (IF input.height < 1 \/ input.height > 4096
     THEN <<Error("", "height is required and must be between 1 and 4096")>> ELSE <<>>)
  \o
  \* vars: more than 10 elements, or an element that is not a finite number
  \* or is out of range, is reported with console.warn and is no error
  (IF input.vars.t # "undefined" /\ input.vars.t # "array"
     THEN <<Error("", "vars must be an array")>> ELSE <<>>)

validateSystem(input) ==
  LET errors == IF input.type = "code" THEN validateCodeSystem(input) ELSE <<>>
  IN [valid |-> Len(errors) = 0, errors |-> errors]

\* createSystem(input): the system it returns, or the Error it throws
createSystem(input) ==
  LET validation == validateSystem(input)
  IN IF ~validation.valid
       THEN [threw |-> TRUE, system |-> Undefined]
       ELSE [threw |-> FALSE,
             system |-> <<[systemType |-> "code", width |-> input.width,
                           height |-> input.height, vars |-> input.vars]>>]

(***************************************************************************)
(* The runtime object of createPreviewRuntime.  t, time and tGlobal are    *)
(* fractions of totalFrames; the model keeps their numerators.             *)
(***************************************************************************)
\* a part of the keys of the runtime object, in the order of the object literal
RuntimeKeys ==
  <<"mode", "width", "height", "frameCount", "VAR", "PI", "background",
    "circle", "random", "noise", "loop", "noLoop",
    "totalFrames", "t", "time", "tGlobal">>

createPreviewRuntime ==
  [width |-> 0, height |-> 0,
   frameCount |-> 0, totalFrames |-> DEFAULT_TOTAL_FRAMES, t |-> 0, time |-> 0, tGlobal |-> 0]

liveProps == {"frameCount", "t", "time", "tGlobal", "totalFrames"}

\* runtime[key] as a script value
RuntimeValue(runtime, key) ==
  CASE key = "frameCount"  -> NumberVal(runtime.frameCount)
    [] key = "totalFrames" -> NumberVal(runtime.totalFrames)
    [] key = "t"           -> NumberVal(runtime.t)
    [] key = "time"        -> NumberVal(runtime.time)
    [] key = "tGlobal"     -> NumberVal(runtime.tGlobal)
    [] key = "width"       -> NumberVal(runtime.width)
    [] key = "height"      -> NumberVal(runtime.height)
    [] key \in {"background", "circle", "random", "noise", "loop", "noLoop"}
                           -> NativeFn(key)
    [] OTHER               -> NumberVal(0)

\* The value a script function reads for the bare name frameCount when it runs.
ReadFrameCount(fn, runtime) ==
  IF fn.env = "scope" THEN runtime.frameCount ELSE fn.fc

(***************************************************************************)
(* Running compiled script text.  The state of a run is the pair of        *)
(* registered functions and whether an exception ended the run.            *)
(***************************************************************************)
CompileStart == [setupFn |-> NullFn, drawFn |-> NullFn, threw |-> FALSE]

\* callee(arg), as the wrapped source calls it
Apply(st, callee, arg) ==
  IF st.threw THEN st
  ELSE IF callee.k = "native"
         THEN IF callee.n = "registerSetup" THEN [st EXCEPT !.setupFn = arg]
              ELSE IF callee.n = "registerDraw" THEN [st EXCEPT !.drawFn = arg]
              ELSE st
  ELSE IF callee.k = "function" THEN [st EXCEPT !.threw = callee.thr]
  ELSE [st EXCEPT !.threw = TRUE]     \* TypeError: callee is not a function

\* The statements of wrappedSource, in order.  ids gives what the identifiers
\* setup, draw, __registerSetup and __registerDraw resolve to in the scope the
\* text runs in, and fnExpr the function object of a function expression.
RunWrappedSource(source, ids, fnExpr) ==
  LET s1 == CASE source.top = "throw"    -> [CompileStart EXCEPT !.threw = TRUE]
              [] source.top = "draw(fn)" -> Apply(CompileStart, ids.draw, fnExpr)
              [] source.top = "setup(fn)" -> Apply(CompileStart, ids.setup, fnExpr)
              [] OTHER                   -> CompileStart
      s2 == IF ~s1.threw /\ IsCallable(ids.setup)
              THEN Apply(s1, ids.registerSetup, ids.setup) ELSE s1
      s3 == IF ~s2.threw /\ IsCallable(ids.draw)
              THEN Apply(s2, ids.registerDraw, ids.draw) ELSE s2
  IN s3

(***************************************************************************)
(* PreviewEngine.compileSource + the call fn() of initialize               *)
(***************************************************************************)
Last(S) == CHOOSE i \in S : \A j \in S : j <= i

compileSource(runtime, source) ==
  LET globalVars == RuntimeKeys \o <<"setup", "draw">> \o <<"__registerSetup", "__registerDraw">>
      globalValues == [i \in 1..Len(RuntimeKeys) |-> RuntimeValue(runtime, RuntimeKeys[i])]
                        \o <<NativeFn("registerSetup"), NativeFn("registerDraw")>>
      \* new Function(...globalVars, body)(...globalValues): the i-th value is bound
      \* to the i-th parameter name; a parameter past the values is undefined
      Param(name) ==
        LET at == {i \in 1..Len(globalVars) : globalVars[i] = name}
        IN IF at = {} THEN UndefinedVal
           ELSE IF Last(at) <= Len(globalValues) THEN globalValues[Last(at)]
           ELSE UndefinedVal
      FnOf(name) == Val("function", name, "params", Param("frameCount").fc,
                        name # "setup" /\ source.thr)
      \* a hoisted function declaration replaces the parameter of the same name
      Lookup(name) == IF name \in source.decl THEN FnOf(name) ELSE Param(name)
  IN RunWrappedSource(source,
                      [setup |-> Lookup("setup"), draw |-> Lookup("draw"),
                       registerSetup |-> Lookup("__registerSetup"),
                       registerDraw |-> Lookup("__registerDraw")],
                      FnOf("anonymous"))

(***************************************************************************)
(* PreviewEngineConfig and the PreviewEngine object                        *)
(***************************************************************************)
Config(canvas, source, behavior, overlay, maxFrames, maxTimeMs, cb, totalFrames) ==
  [canvas |-> canvas, source |-> source, budgetBehavior |-> behavior,
   showOverlay |-> overlay, maxFrames |-> maxFrames, maxTimeMs |-> maxTimeMs,
   onBudgetExceeded |-> cb, totalFrames |-> totalFrames,
   width |-> 800, height |-> 600]

Sized(cfg, width, height) == [cfg EXCEPT !.width = width, !.height = height]

NoConfig == Config("A", Script({}, "none", FALSE), "undefined", "undefined",
                   Undefined, Undefined, "undefined", Undefined)

\* the fields of the class, then the model's record of what the object did
\* in the current loop session
NoEngine ==
  [built |-> FALSE, cfg |-> NoConfig,
   runtime |-> createPreviewRuntime, runtimeNull |-> TRUE,
   setupFn |-> NullFn, drawFn |-> NullFn,
   animationFrameId |-> Null, running |-> FALSE,
   internalFrameCount |-> 0, startTimeMs |-> 0,
   currentStride |-> 1, budgetExceededReason |-> "null",
   overlayElement |-> FALSE,
   scaled |-> calculateScaledDimensions(NoConfig.width, NoConfig.height),
   ctxScale |-> <<1, 1>>, \* the scale of the transform of the canvas context
   loopStarted |-> FALSE, \* startLoop() has started a session
   held |-> TRUE,         \* the page holds a reference to the object
   destroyed |-> FALSE,   \* destroy() has been called
   budgetStops |-> 0,     \* times handleBudgetExceeded has stopped the loop (0 or 1: has it?)
   notified |-> 0,        \* calls of onBudgetExceeded since the last effective startLoop()
   exceededAt |-> 0,      \* internalFrameCount when budgetExceededReason was recorded
   drawsBefore |-> 0,     \* drawCalls when budgetExceededReason was recorded
   drawCalls |-> 0,       \* calls of drawFn since the last effective startLoop()
   lastDrawTick |-> 0,    \* internalFrameCount at the last call of drawFn
   observed |-> -1]       \* frameCount as read by the script in the last call of drawFn

\* renderCodeModeSystem: the arguments and the variables of the closure, then
\* the model's record of the calls of drawFn
NoSystem ==
  [mode |-> "static", source |-> Script({}, "none", FALSE), totalFrames |-> Undefined,
   width |-> 800, height |-> 600]

NoRenderer ==
  [built |-> FALSE, system |-> NoSystem, canvas |-> "A",
   scaled |-> calculateScaledDimensions(NoSystem.width, NoSystem.height),
   ctxScale |-> <<1, 1>>, \* the scale of the transform of the canvas context
   animationId |-> Null, isRunning |-> FALSE, isDestroyed |-> FALSE,
   runtime |-> createPreviewRuntime, runtimeNull |-> TRUE,
   setupFn |-> NullFn, drawFn |-> NullFn,
   drawCalls |-> 0,       \* calls of drawFn
   lastDrawTick |-> 0,    \* frameCount of the loop at the last call of drawFn
   observed |-> -1]       \* frameCount as read by the script in the last call of drawFn

\* renderUnifiedSystem: the variables of the closure
NoUnified ==
  [built |-> FALSE, elements |-> "none", canvas |-> "A",
   width |-> 800, height |-> 600,     \* system.width, system.height
   scaled |-> calculateScaledDimensions(800, 600),
   ctxScale |-> <<1, 1>>, \* the scale of the transform of the canvas context
   runtimeSize |-> <<0, 0>>,          \* width and height of the runtime of renderLoop
   animationId |-> Null, isRunning |-> FALSE, isDestroyed |-> FALSE,
   lastFrameTimeMs |-> 0,
   drawCalls |-> 0]       \* calls of runDraw

World ==
  [now |-> now, rafSeq |-> rafSeq, rafQueue |-> rafQueue, frameQueue |-> frameQueue,
   log |-> <<>>, buffer |-> buffer, engine |-> engine,
   active |-> activePreviewRenderer, renderer |-> renderer,
   activeInstance |-> activeRendererInstance, unified |-> unified,
   threw |-> "none",      \* the exception that is leaving the running handler
   warn |-> "none",       \* the error the running handler caught and reported
   ret |-> Undefined]     \* the value the running handler returns

\* a callback passed to requestAnimationFrame: which loop function, of which
\* object, and the local variable frameCount of the closure (code, unified)
Loop(kind, owner, frameCount) == [kind |-> kind, owner |-> owner, frameCount |-> frameCount]

(***************************************************************************)
(* The browser's animation-frame callback list                             *)
(***************************************************************************)
requestAnimationFrame(w, loop) ==
  [w EXCEPT !.rafSeq = @ + 1,
            !.rafQueue = Append(@, [id |-> w.rafSeq + 1, loop |-> loop])]

cancelAnimationFrame(w, id) ==
  [w EXCEPT !.rafQueue = SelectSeq(@, LAMBDA c : c.id # id),
            !.frameQueue = SelectSeq(@, LAMBDA c : c.id # id)]

Note(w, step) == [w EXCEPT !.log = Append(@, step)]

\* console.warn in a catch block
Warn(w, what) == [w EXCEPT !.warn = what]

\* a function of the script paints: the buffer records who painted and the
\* frameCount the script read
Paint(w, c, who, fc) ==
  [w EXCEPT !.buffer[c] = [op |-> "draw", by |-> who, fc |-> fc]]

(***************************************************************************)
(* PreviewEngine methods, as transformers of the world                     *)
(***************************************************************************)
stopLoop(w, e) ==
  LET id == w.engine[e].animationFrameId
      w1 == [w EXCEPT !.engine[e].running = FALSE]
      w2 == IF id # Null
              THEN [cancelAnimationFrame(w1, id) EXCEPT !.engine[e].animationFrameId = Null]
              ELSE w1
  IN IF w2.active = e THEN [w2 EXCEPT !.active = Null] ELSE w2

removeOverlay(w, e) ==
  IF w.engine[e].overlayElement THEN [w EXCEPT !.engine[e].overlayElement = FALSE] ELSE w

showBudgetOverlay(w, e) ==
  LET cfg == w.engine[e].cfg
      showOverlay == IF cfg.showOverlay = "undefined"
                       THEN cfg.budgetBehavior = "stop"
                       ELSE cfg.showOverlay = "true"
  IN IF w.engine[e].overlayElement THEN w
     ELSE IF ~showOverlay THEN w
     ELSE [w EXCEPT !.engine[e].overlayElement = TRUE]

\* this.config.onBudgetExceeded(info): the host's callback returns, throws,
\* or calls stopLoop() on the engine and returns
runCallback(w, e) ==
  LET cb == w.engine[e].cfg.onBudgetExceeded
  IN IF cb = "throws" THEN [w EXCEPT !.threw = "callback"]
     ELSE IF cb = "stops" THEN stopLoop(w, e)
     ELSE w

\* a variant without the guard on budgetExceededReason: every failed budget
\* check notifies again
handleBudgetExceededAgain(w, e, reason) ==
  LET cfg == w.engine[e].cfg
      behavior == IF cfg.budgetBehavior = "undefined" THEN "stop" ELSE cfg.budgetBehavior
      w1 == [w EXCEPT !.engine[e].budgetExceededReason = reason,
                      !.engine[e].exceededAt = w.engine[e].internalFrameCount,
                      !.engine[e].drawsBefore = w.engine[e].drawCalls]
      w2 == IF cfg.onBudgetExceeded # "undefined"
              THEN runCallback([w1 EXCEPT !.engine[e].notified = @ + 1], e)
              ELSE w1
  IN IF w2.threw # "none" THEN w2
     ELSE IF behavior = "stop"
       THEN [stopLoop(showBudgetOverlay(w2, e), e) EXCEPT !.engine[e].budgetStops = 1]
     ELSE IF behavior = "degrade"
       THEN [w2 EXCEPT !.engine[e].currentStride = DEGRADE_STRIDE]
     ELSE w2

handleBudgetExceeded(w, e, reason) ==
  IF w.engine[e].budgetExceededReason # "null" THEN w
  ELSE
    LET cfg == w.engine[e].cfg
        behavior == IF cfg.budgetBehavior = "undefined" THEN "stop" ELSE cfg.budgetBehavior
        w1 == [w EXCEPT !.engine[e].budgetExceededReason = reason,
                        !.engine[e].exceededAt = w.engine[e].internalFrameCount,
                        !.engine[e].drawsBefore = w.engine[e].drawCalls]
        w2 == IF cfg.onBudgetExceeded # "undefined"
                THEN runCallback([w1 EXCEPT !.engine[e].notified = @ + 1], e)
                ELSE w1
    IN IF w2.threw # "none" THEN w2
       ELSE IF behavior = "stop"
         THEN [stopLoop(showBudgetOverlay(w2, e), e) EXCEPT !.engine[e].budgetStops = 1]
       ELSE IF behavior = "degrade"
         THEN [w2 EXCEPT !.engine[e].currentStride = DEGRADE_STRIDE]
       ELSE w2

\* the result of checkBudget: the world it leaves and the value it returns
\* a variant of checkBudget without the time ceiling
checkBudgetFramesOnly(w, e) ==
  LET cfg == w.engine[e].cfg
      maxFrames == Coalesce(cfg.maxFrames, MAX_FRAMES)
  IN IF w.engine[e].internalFrameCount >= maxFrames
       THEN [w |-> handleBudgetExceeded(w, e, "frame_limit"), ok |-> FALSE]
     ELSE [w |-> w, ok |-> TRUE]

\* a variant of checkBudget that tests the time ceiling first
checkBudgetTimeFirst(w, e) ==
  LET cfg == w.engine[e].cfg
      maxFrames == Coalesce(cfg.maxFrames, MAX_FRAMES)
      maxTimeMs == Coalesce(cfg.maxTimeMs, MAX_TOTAL_TIME_MS)
      elapsed == w.now - w.engine[e].startTimeMs
  IN IF elapsed >= maxTimeMs
       THEN [w |-> handleBudgetExceeded(w, e, "time_limit"), ok |-> FALSE]
     ELSE IF w.engine[e].internalFrameCount >= maxFrames
       THEN [w |-> handleBudgetExceeded(w, e, "frame_limit"), ok |-> FALSE]
     ELSE [w |-> w, ok |-> TRUE]

\* a variant of checkBudget whose ceilings are exceeded only when passed
checkBudgetStrict(w, e) ==
  LET cfg == w.engine[e].cfg
      maxFrames == Coalesce(cfg.maxFrames, MAX_FRAMES)
      maxTimeMs == Coalesce(cfg.maxTimeMs, MAX_TOTAL_TIME_MS)
      elapsed == w.now - w.engine[e].startTimeMs
  IN IF w.engine[e].internalFrameCount > maxFrames
       THEN [w |-> handleBudgetExceeded(w, e, "frame_limit"), ok |-> FALSE]
     ELSE IF elapsed > maxTimeMs
       THEN [w |-> handleBudgetExceeded(w, e, "time_limit"), ok |-> FALSE]
     ELSE [w |-> w, ok |-> TRUE]

checkBudget(w, e) ==
  LET cfg == w.engine[e].cfg
      maxFrames == Coalesce(cfg.maxFrames, MAX_FRAMES)
      maxTimeMs == Coalesce(cfg.maxTimeMs, MAX_TOTAL_TIME_MS)
      elapsed == w.now - w.engine[e].startTimeMs
  IN IF w.engine[e].internalFrameCount >= maxFrames
       THEN [w |-> handleBudgetExceeded(w, e, "frame_limit"), ok |-> FALSE]
     ELSE IF elapsed >= maxTimeMs
       THEN [w |-> handleBudgetExceeded(w, e, "time_limit"), ok |-> FALSE]
     ELSE [w |-> w, ok |-> TRUE]

\* this.setupFn() inside try/catch
callSetupFn(w, e) ==
  LET fn == w.engine[e].setupFn
  IN IF fn.k = "null" THEN w
     ELSE IF fn.thr THEN Warn(w, "setup")
     ELSE Paint(w, w.engine[e].cfg.canvas, e, ReadFrameCount(fn, w.engine[e].runtime))

\* a variant of the call of drawFn without the try/catch around it
callDrawFnUncaught(w, e) ==
  LET fn == w.engine[e].drawFn
      fc == ReadFrameCount(fn, w.engine[e].runtime)
      w1 == [Note(w, "draw") EXCEPT !.engine[e].drawCalls = @ + 1,
                                     !.engine[e].lastDrawTick = w.engine[e].internalFrameCount,
                                     !.engine[e].observed = fc]
  IN IF fn.k = "null" THEN w
     ELSE IF fn.thr THEN [w1 EXCEPT !.threw = "script"]
     ELSE Paint(w1, w.engine[e].cfg.canvas, e, fc)

\* a variant of the call that does not test this.drawFn first: calling null
\* is a TypeError, caught by the try/catch around the call
callDrawFnUnguarded(w, e) ==
  LET fn == w.engine[e].drawFn
      fc == ReadFrameCount(fn, w.engine[e].runtime)
      w1 == [Note(w, "draw") EXCEPT !.engine[e].drawCalls = @ + 1,
                                     !.engine[e].lastDrawTick = w.engine[e].internalFrameCount,
                                     !.engine[e].observed = fc]
  IN IF fn.k = "null" THEN Warn(w, "draw")
     ELSE IF fn.thr THEN Warn(w1, "draw")
     ELSE Paint(w1, w.engine[e].cfg.canvas, e, fc)

\* if (this.drawFn) this.drawFn(), inside try/catch
callDrawFn(w, e) ==
  LET fn == w.engine[e].drawFn
      fc == ReadFrameCount(fn, w.engine[e].runtime)
      w1 == [Note(w, "draw") EXCEPT !.engine[e].drawCalls = @ + 1,
                                     !.engine[e].lastDrawTick = w.engine[e].internalFrameCount,
                                     !.engine[e].observed = fc]
  IN IF fn.k = "null" THEN w
     ELSE IF fn.thr THEN Warn(w1, "draw")
     ELSE Paint(w1, w.engine[e].cfg.canvas, e, fc)

\* this.animationFrameId = requestAnimationFrame(callback)
scheduleNextFrame(w, e) ==
  [requestAnimationFrame(w, Loop("engine", e, 0))
     EXCEPT !.engine[e].animationFrameId = w.rafSeq + 1]

\* a variant of the timing update without the modulo
TimingUnwrapped(runtime, c, totalFrames) ==
  [runtime EXCEPT !.frameCount = c, !.t = c, !.time = c, !.tGlobal = c]

\* the runtime fields written by a tick with frame counter c; t, time and
\* tGlobal are kept as the numerator of the fraction over totalFrames
Timing(runtime, c, totalFrames) ==
  [runtime EXCEPT !.frameCount = c,
                  !.t = c % totalFrames,
                  !.time = c % totalFrames,
                  !.tGlobal = c % totalFrames]

\* the rest of the callback once the loop is known to be running and the
\* counter has been incremented: budget check, stride skip, update, draw;
\* drew tells whether the callback reached the draw step
tickGates(w2, e) ==
  LET cb == checkBudget(Note(w2, "budget"), e)
      w3 == cb.w
  IN IF w3.threw # "none" THEN [w |-> Note(w3, "throw"), drew |-> FALSE]
     ELSE IF ~cb.ok /\ w3.engine[e].cfg.budgetBehavior # "degrade"
       THEN [w |-> Note(w3, "gate"), drew |-> FALSE]
     ELSE IF /\ w3.engine[e].currentStride > 1
             /\ w3.engine[e].internalFrameCount % w3.engine[e].currentStride # 0
       THEN [w |-> Note(w3, "skip"), drew |-> FALSE]
     ELSE
       LET totalFrames == Coalesce(w3.engine[e].cfg.totalFrames, DEFAULT_TOTAL_FRAMES)
           w4 == IF w3.engine[e].runtimeNull THEN w3
                 ELSE [w3 EXCEPT !.engine[e].runtime =
                         Timing(@, w3.engine[e].internalFrameCount, totalFrames)]
       IN [w |-> callDrawFn(Note(w4, "update"), e), drew |-> TRUE]

\* a variant of the callback that increments the counter before it requests
\* the next frame
tickIncFirst(w, e) ==
  IF ~w.engine[e].running THEN Note(Note(scheduleNextFrame(w, e), "raf"), "exit")
  ELSE
    LET w1 == Note([w EXCEPT !.engine[e].internalFrameCount = @ + 1], "inc")
    IN tickGates(Note(scheduleNextFrame(w1, e), "raf"), e).w

\* a variant of the callback that requests the next frame at its end, and only
\* when the tick has drawn (the loop of 0.8.2)
tickGated(w, e) ==
  IF ~w.engine[e].running THEN Note(w, "exit")
  ELSE
    LET w1 == Note([w EXCEPT !.engine[e].internalFrameCount = @ + 1], "inc")
        g == tickGates(w1, e)
    IN IF g.drew THEN Note(scheduleNextFrame(g.w, e), "raf") ELSE g.w

\* the callback passed to requestAnimationFrame by scheduleNextFrame
tick(w, e) ==
  LET w1 == Note(scheduleNextFrame(w, e), "raf")
  IN IF ~w1.engine[e].running THEN Note(w1, "exit")
     ELSE tickGates(Note([w1 EXCEPT !.engine[e].internalFrameCount = @ + 1], "inc"), e).w

\* a variant of startLoop that keeps the budget state of the previous session
startLoopKeepsBudget(w, e) ==
  IF w.engine[e].running THEN w
  ELSE
    LET w1 == IF w.active # Null /\ w.active # e THEN stopLoop(w, w.active) ELSE w
        w2 == [w1 EXCEPT !.active = e,
                         !.engine[e].running = TRUE,
                         !.engine[e].loopStarted = TRUE,
                         !.engine[e].startTimeMs = w.now,
                         !.engine[e].internalFrameCount = 0]
    IN scheduleNextFrame(callSetupFn(removeOverlay(w2, e), e), e)

\* a variant of startLoop without the reset of currentStride
startLoopKeepsStride(w, e) ==
  IF w.engine[e].running THEN w
  ELSE
    LET w1 == IF w.active # Null /\ w.active # e THEN stopLoop(w, w.active) ELSE w
        w2 == [w1 EXCEPT !.active = e,
                         !.engine[e].running = TRUE,
                         !.engine[e].loopStarted = TRUE,
                         !.engine[e].startTimeMs = w.now,
                         !.engine[e].internalFrameCount = 0,
                         !.engine[e].budgetExceededReason = "null",
                         !.engine[e].notified = 0,
                         !.engine[e].exceededAt = 0,
                         !.engine[e].drawsBefore = 0,
                         !.engine[e].drawCalls = 0,
                         !.engine[e].lastDrawTick = 0,
                         !.engine[e].observed = -1]
    IN scheduleNextFrame(callSetupFn(removeOverlay(w2, e), e), e)

\* a variant of startLoop that takes activePreviewRenderer without stopping it
startLoopNoHandOver(w, e) ==
  IF w.engine[e].running THEN w
  ELSE
    LET w2 == [w EXCEPT !.active = e,
                        !.engine[e].running = TRUE,
                        !.engine[e].loopStarted = TRUE,
                        !.engine[e].startTimeMs = w.now,
                        !.engine[e].internalFrameCount = 0,
                        !.engine[e].currentStride = 1,
                        !.engine[e].budgetExceededReason = "null",
                        !.engine[e].notified = 0,
                        !.engine[e].exceededAt = 0,
                        !.engine[e].drawsBefore = 0,
                        !.engine[e].drawCalls = 0,
                        !.engine[e].lastDrawTick = 0,
                        !.engine[e].observed = -1]
    IN scheduleNextFrame(callSetupFn(removeOverlay(w2, e), e), e)

\* a variant of startLoop without the test of running
startLoopUnguarded(w, e) ==
  LET w1 == IF w.active # Null /\ w.active # e THEN stopLoop(w, w.active) ELSE w
      w2 == [w1 EXCEPT !.active = e,
                       !.engine[e].running = TRUE,
                       !.engine[e].loopStarted = TRUE,
                       !.engine[e].startTimeMs = w.now,
                       !.engine[e].internalFrameCount = 0,
                       !.engine[e].currentStride = 1,
                       !.engine[e].budgetExceededReason = "null",
                       !.engine[e].notified = 0,
                       !.engine[e].exceededAt = 0,
                       !.engine[e].drawsBefore = 0,
                       !.engine[e].drawCalls = 0,
                       !.engine[e].lastDrawTick = 0,
                       !.engine[e].observed = -1]
  IN scheduleNextFrame(callSetupFn(removeOverlay(w2, e), e), e)

startLoop(w, e) ==
  IF w.engine[e].running THEN w
  ELSE
    LET w1 == IF w.active # Null /\ w.active # e THEN stopLoop(w, w.active) ELSE w
        w2 == [w1 EXCEPT !.active = e,
                         !.engine[e].running = TRUE,
                         !.engine[e].loopStarted = TRUE,
                         !.engine[e].startTimeMs = w.now,
                         !.engine[e].internalFrameCount = 0,
                         !.engine[e].currentStride = 1,
                         !.engine[e].budgetExceededReason = "null",
                         !.engine[e].notified = 0,
                         !.engine[e].exceededAt = 0,
                         !.engine[e].drawsBefore = 0,
                         !.engine[e].drawCalls = 0,
                         !.engine[e].lastDrawTick = 0,
                         !.engine[e].observed = -1]
    IN scheduleNextFrame(callSetupFn(removeOverlay(w2, e), e), e)

\* PreviewRenderResult without executionTimeMs; terminationReason is
\* "undefined" when the property is absent, errorMessage tells whether the
\* property is present
RenderResult(success, framesRendered, terminatedEarly, terminationReason, errorMessage) ==
  [success |-> success, framesRendered |-> framesRendered,
   terminatedEarly |-> terminatedEarly, terminationReason |-> terminationReason,
   errorMessage |-> errorMessage]

\* a variant of renderStatic without the try/catch around setupFn()
renderStaticUncaught(w, e) ==
  LET w1 == [w EXCEPT !.engine[e].startTimeMs = w.now]
      fn == w1.engine[e].setupFn
  IN IF fn.k # "null" /\ fn.thr
       THEN [w1 EXCEPT !.threw = "script"]
       ELSE [callSetupFn(w1, e) EXCEPT
               !.ret = <<RenderResult(TRUE, 1, FALSE, "undefined", FALSE)>>]

renderStatic(w, e) ==
  LET w1 == [w EXCEPT !.engine[e].startTimeMs = w.now]
      fn == w1.engine[e].setupFn
  IN IF fn.k # "null" /\ fn.thr
       THEN [Warn(w1, "static") EXCEPT
               !.ret = <<RenderResult(FALSE, 0, TRUE, "error", TRUE)>>]
       ELSE [callSetupFn(w1, e) EXCEPT
               !.ret = <<RenderResult(TRUE, 1, FALSE, "undefined", FALSE)>>]

destroy(w, e) ==
  [removeOverlay(stopLoop(w, e), e)
     EXCEPT !.engine[e].runtimeNull = TRUE,
            !.engine[e].setupFn = NullFn,
            !.engine[e].drawFn = NullFn,
            !.engine[e].destroyed = TRUE]

\* a variant of initialize without the try/catch around compileSource and fn()
initializeUncaught(w, e, cfg) ==
  LET scaled == calculateScaledDimensions(cfg.width, cfg.height)
      runtime == [createPreviewRuntime EXCEPT
                    !.width = scaled.originalWidth,
                    !.height = scaled.originalHeight,
                    !.totalFrames = Coalesce(cfg.totalFrames, DEFAULT_TOTAL_FRAMES)]
      fns == compileSource(runtime, cfg.source)
  IN [w EXCEPT !.buffer[cfg.canvas] = [op |-> "resize", by |-> e, fc |-> 0],
               !.threw = IF fns.threw THEN "script" ELSE @,
               !.engine[e] = [NoEngine EXCEPT !.built = TRUE, !.cfg = cfg,
                                !.scaled = scaled,
                                !.ctxScale = reapplyContextScale(scaled),
                                !.runtime = runtime, !.runtimeNull = FALSE,
                                !.setupFn = fns.setupFn, !.drawFn = fns.drawFn]]

\* a variant of initialize that gives the runtime the size of the buffer
initializeBufferSize(w, e, cfg) ==
  LET scaled == calculateScaledDimensions(cfg.width, cfg.height)
      runtime == [createPreviewRuntime EXCEPT
                    !.width = scaled.renderWidth,
                    !.height = scaled.renderHeight,
                    !.totalFrames = Coalesce(cfg.totalFrames, DEFAULT_TOTAL_FRAMES)]
      fns == compileSource(runtime, cfg.source)
  IN [w EXCEPT !.buffer[cfg.canvas] = [op |-> "resize", by |-> e, fc |-> 0],
               !.warn = IF fns.threw THEN "compile" ELSE @,
               !.engine[e] = [NoEngine EXCEPT !.built = TRUE, !.cfg = cfg,
                                !.scaled = scaled,
                                !.ctxScale = reapplyContextScale(scaled),
                                !.runtime = runtime, !.runtimeNull = FALSE,
                                !.setupFn = fns.setupFn, !.drawFn = fns.drawFn]]

\* new PreviewEngine(config): the constructor and initialize()
initialize(w, e, cfg) ==
  LET scaled == calculateScaledDimensions(cfg.width, cfg.height)
      runtime == [createPreviewRuntime EXCEPT
                    !.width = scaled.originalWidth,
                    !.height = scaled.originalHeight,
                    !.totalFrames = Coalesce(cfg.totalFrames, DEFAULT_TOTAL_FRAMES)]
      fns == compileSource(runtime, cfg.source)
  IN [w EXCEPT !.buffer[cfg.canvas] = [op |-> "resize", by |-> e, fc |-> 0],
               !.warn = IF fns.threw THEN "compile" ELSE @,
               !.engine[e] = [NoEngine EXCEPT !.built = TRUE, !.cfg = cfg,
                                !.scaled = scaled,
                                !.ctxScale = reapplyContextScale(scaled),
                                !.runtime = runtime, !.runtimeNull = FALSE,
                                !.setupFn = fns.setupFn, !.drawFn = fns.drawFn]]

\* getPreviewStats() of the engine object o, performance.now() being t
getPreviewStats(o, t) ==
  LET elapsed == IF o.startTimeMs > 0 THEN t - o.startTimeMs ELSE 0
  IN [mode |-> "preview", scale |-> o.scaled.scaleFactor,
      semanticWidth |-> o.scaled.originalWidth,
      semanticHeight |-> o.scaled.originalHeight,
      bufferWidth |-> o.scaled.renderWidth,
      bufferHeight |-> o.scaled.renderHeight,
      frames |-> o.internalFrameCount, stride |-> o.currentStride,
      totalTimeMs |-> elapsed,
      budgetExceeded |-> o.budgetExceededReason]

\* renderStaticPreview(config): the engine is a local variable of the function
renderStaticPreview(w, e, cfg) ==
  LET w1 == renderStatic(initialize(w, e, cfg), e)
  IN [destroy(w1, e) EXCEPT !.engine[e].held = FALSE]

stopActivePreview(w) ==
  IF w.active # Null THEN [stopLoop(w, w.active) EXCEPT !.active = Null] ELSE w

(***************************************************************************)
(* renderCodeModeSystem (code-renderer.ts), as transformers of the world   *)
(***************************************************************************)
\* the assignments of compileSource: the fresh runtime, and the functions the
\* run of the wrapped source registered (fns), a caught exception being warned
registerCompiled(w, r, runtime, fns) ==
  [w EXCEPT !.warn = IF fns.threw THEN "compile" ELSE @,
            !.renderer[r].runtime = runtime,
            !.renderer[r].runtimeNull = FALSE,
            !.renderer[r].setupFn = IF fns.setupFn.k # "null" THEN fns.setupFn ELSE @,
            !.renderer[r].drawFn = IF fns.drawFn.k # "null" THEN fns.drawFn ELSE @]

\* compileSource of renderCodeModeSystem: a fresh runtime, then the wrapped
\* source run inside with (__scope), inside try/catch
compileSourceCR(w, r) ==
  LET sys == w.renderer[r].system
      scaled == w.renderer[r].scaled
      runtime == [createPreviewRuntime EXCEPT
                    !.width = scaled.originalWidth,
                    !.height = scaled.originalHeight,
                    !.totalFrames = Coalesce(sys.totalFrames, DEFAULT_TOTAL_FRAMES)]
      staticCache == {RuntimeKeys[i] : i \in 1..Len(RuntimeKeys)} \ liveProps
      knownKeys == liveProps \cup staticCache \cup {"__registerSetup", "__registerDraw"}
      \* the get trap of the Proxy
      Get(prop) ==
        IF prop \in liveProps THEN RuntimeValue(runtime, prop)
        ELSE IF prop = "__registerSetup" THEN NativeFn("registerSetup")
        ELSE IF prop = "__registerDraw" THEN NativeFn("registerDraw")
        ELSE IF prop \in staticCache THEN RuntimeValue(runtime, prop)
        ELSE UndefinedVal
      FnOf(name) == Val("function", name, "scope", 0, name # "setup" /\ sys.source.thr)
      \* a function declared in the block, then the scope object when its has
      \* trap answers true, then the host environment (where neither setup nor
      \* draw is defined)
      Lookup(name) ==
        IF name \in sys.source.decl THEN FnOf(name)
        ELSE IF name \in knownKeys THEN Get(name)
        ELSE UndefinedVal
      fns == RunWrappedSource(sys.source,
                              [setup |-> Lookup("setup"), draw |-> Lookup("draw"),
                               registerSetup |-> Lookup("__registerSetup"),
                               registerDraw |-> Lookup("__registerDraw")],
                              FnOf("anonymous"))
  IN registerCompiled(w, r, runtime, fns)

clearCanvasIgnoringTransform(w, c, who) ==
  [w EXCEPT !.buffer[c] = [op |-> "clear", by |-> who, fc |-> 0]]

\* isRunning = true; animationId = requestAnimationFrame(loop)
startLoopCR(w2, r) ==
  [requestAnimationFrame([w2 EXCEPT !.renderer[r].isRunning = TRUE], Loop("code", r, 0))
     EXCEPT !.renderer[r].animationId = w2.rafSeq + 1]

\* if (setupFn) setupFn(), on the compiled renderer
callSetupFnCR(w1, r) ==
  LET fn == w1.renderer[r].setupFn
  IN IF fn.k = "null" THEN w1
     ELSE Paint(w1, w1.renderer[r].canvas, r, ReadFrameCount(fn, w1.renderer[r].runtime))

renderStaticCR(w, r) == callSetupFnCR(compileSourceCR(w, r), r)

\* renderLoop after its compileSource(): the static fallback when no draw
\* function was registered, otherwise setup and the first animation frame
renderLoopCompiled(w1, r) ==
  IF w1.renderer[r].drawFn.k = "null" THEN renderStaticCR(w1, r)
  ELSE startLoopCR(callSetupFnCR(w1, r), r)

renderLoopCR(w, r) ==
  IF w.renderer[r].isDestroyed THEN w
  ELSE renderLoopCompiled(compileSourceCR(w, r), r)

\* the function loop of renderLoop; frameCount is the variable of its closure
loopCR(w, r, frameCount) ==
  LET live == w.renderer[r].isRunning /\ ~w.renderer[r].isDestroyed
      c == IF live THEN frameCount + 1 ELSE frameCount
      w1 == Note([requestAnimationFrame(w, Loop("code", r, c))
                    EXCEPT !.renderer[r].animationId = w.rafSeq + 1], "raf")
  IN IF ~live THEN Note(w1, "exit")
     ELSE
       LET totalFrames == Coalesce(w1.renderer[r].system.totalFrames, DEFAULT_TOTAL_FRAMES)
           w2 == IF w1.renderer[r].runtimeNull THEN Note(w1, "inc")
                 ELSE Note([w1 EXCEPT !.renderer[r].runtime = Timing(@, c, totalFrames)], "inc")
           w3 == Note(clearCanvasIgnoringTransform(Note(w2, "update"), w2.renderer[r].canvas, r),
                      "clear")
           fn == w3.renderer[r].drawFn
           fc == ReadFrameCount(fn, w3.renderer[r].runtime)
           w4 == [Note(w3, "draw") EXCEPT !.renderer[r].drawCalls = @ + 1,
                                          !.renderer[r].lastDrawTick = c,
                                          !.renderer[r].observed = fc]
       IN IF fn.k = "null" THEN w3
          ELSE IF fn.thr THEN Warn(w4, "draw")
          ELSE Paint(w4, w4.renderer[r].canvas, r, fc)

stopCR(w, r) ==
  LET id == w.renderer[r].animationId
      w1 == [w EXCEPT !.renderer[r].isRunning = FALSE]
  IN IF id # Null
       THEN [cancelAnimationFrame(w1, id) EXCEPT !.renderer[r].animationId = Null]
       ELSE w1

renderCR(w, r) ==
  IF w.renderer[r].isDestroyed THEN w
  ELSE IF w.renderer[r].system.mode = "static" THEN renderStaticCR(w, r)
  ELSE renderLoopCR(w, r)

startCR(w, r) ==
  IF w.renderer[r].isDestroyed THEN w
  ELSE IF w.renderer[r].system.mode = "loop" THEN renderLoopCR(stopCR(w, r), r)
  ELSE renderStaticCR(stopCR(w, r), r)

destroyCR(w, r) ==
  LET w1 == stopCR([w EXCEPT !.renderer[r].isDestroyed = TRUE], r)
      w2 == [clearCanvasIgnoringTransform(w1, w1.renderer[r].canvas, r)
               EXCEPT !.renderer[r].runtimeNull = TRUE,
                      !.renderer[r].setupFn = NullFn,
                      !.renderer[r].drawFn = NullFn]
  IN IF w2.activeInstance = r THEN [w2 EXCEPT !.activeInstance = Null] ELSE w2

\* renderCodeModeSystem(system, canvas): the body of the function
renderCodeModeSystem(w, r, system, canvas) ==
  LET w1 == IF w.activeInstance # Null
              THEN [destroyCR(w, w.activeInstance) EXCEPT !.activeInstance = Null]
              ELSE w
      scaled == calculateScaledDimensions(system.width, system.height)
  IN [w1 EXCEPT !.buffer[canvas] = [op |-> "resize", by |-> r, fc |-> 0],
                !.renderer[r] = [NoRenderer EXCEPT !.built = TRUE, !.system = system,
                                                  !.canvas = canvas,
                                                  !.scaled = scaled,
                                                  !.ctxScale = reapplyContextScale(scaled)],
                !.activeInstance = r]

(***************************************************************************)
(* renderUnifiedSystem (part_004), as transformers of the world            *)
(***************************************************************************)
shouldRenderFrame(w) == w.now - w.unified.lastFrameTimeMs >= FRAME_INTERVAL_MS

\* runDraw: paints, or throws when the system has elements and none has draw code
runDrawThrows(w) == w.unified.elements = "blank"

renderLoopUR(w) ==
  IF w.unified.isDestroyed THEN w
  ELSE
    LET scaled == w.unified.scaled
        w1 == [w EXCEPT !.unified.runtimeSize =
                           <<scaled.originalWidth, scaled.originalHeight>>,
                        !.unified.lastFrameTimeMs = 0,     \* resetThrottle
                        !.unified.isRunning = TRUE]
    IN [requestAnimationFrame(w1, Loop("unified", 1, 0))
          EXCEPT !.unified.animationId = w1.rafSeq + 1]

\* the function loop of renderLoop; frameCount is the variable of its closure
loopUR(w, frameCount) ==
  LET live == w.unified.isRunning /\ ~w.unified.isDestroyed
      pass == live /\ shouldRenderFrame(w)
      c == IF pass THEN frameCount + 1 ELSE frameCount
      w1 == Note([requestAnimationFrame(w, Loop("unified", 1, c))
                    EXCEPT !.unified.animationId = w.rafSeq + 1], "raf")
  IN IF ~live THEN Note(w1, "exit")
     ELSE IF ~pass THEN Note(w1, "throttle")
     ELSE
       LET w2 == [Note(Note(w1, "inc"), "draw") EXCEPT !.unified.drawCalls = @ + 1]
       IN IF runDrawThrows(w2) THEN Warn(w2, "draw")
          ELSE [Paint(w2, w2.unified.canvas, 1, c)
                  EXCEPT !.unified.lastFrameTimeMs = w.now]   \* recordFrame

stopUR(w) ==
  LET id == w.unified.animationId
      w1 == [w EXCEPT !.unified.isRunning = FALSE]
  IN IF id # Null
       THEN [cancelAnimationFrame(w1, id) EXCEPT !.unified.animationId = Null]
       ELSE w1

renderUR(w) == IF w.unified.isDestroyed THEN w ELSE renderLoopUR(w)

startUR(w) == IF w.unified.isDestroyed THEN w ELSE renderLoopUR(stopUR(w))

destroyUR(w) ==
  clearCanvasIgnoringTransform(stopUR([w EXCEPT !.unified.isDestroyed = TRUE]),
                               w.unified.canvas, 1)

\* renderUnifiedSystem(system, canvas): compileSketchElement throws on sketch
\* code that validateSketchSafety rejects, and the function throws when the
\* system has elements and none of them compiles to a renderer
renderUnifiedSystem(w, elements, size, canvas) ==
  LET w1 == [w EXCEPT !.buffer[canvas] = [op |-> "resize", by |-> 1, fc |-> 0]]
      scaled == calculateScaledDimensions(size[1], size[2])
  IN IF elements = "unsafe" THEN [w1 EXCEPT !.threw = "unsafe-sketch"]
     ELSE IF elements = "unknown" THEN [w1 EXCEPT !.threw = "zero-renderers"]
     ELSE [w1 EXCEPT !.unified = [NoUnified EXCEPT !.built = TRUE,
                                                  !.elements = elements,
                                                  !.canvas = canvas,
                                                  !.width = size[1], !.height = size[2],
                                                  !.scaled = scaled,
                                                  !.ctxScale = reapplyContextScale(scaled)]]

(***************************************************************************)
(* Configurations the host may pass to new PreviewEngine                   *)
(***************************************************************************)
Behaviors == {"undefined", "stop", "degrade"}
Callbacks == {"undefined", "returns", "throws", "stops"}

\* ceilings <maxFrames, maxTimeMs> that no valid configuration has
InvalidLimits ==
  { <<(<<0>>), Undefined>>, <<(<<-1>>), Undefined>>,
    <<Undefined, (<<0>>)>>, <<(<<3>>), (<<-5>>)>> }

\* scripts whose compilation fails, or whose registered draw function throws
FailingScripts ==
  { Script({"draw"}, "throw", FALSE), Script({"setup", "draw"}, "throw", FALSE),
    Script({}, "throw", FALSE), Script({}, "draw(fn)", TRUE),
    Script({}, "setup(fn)", TRUE) }

\* configurations passed to renderStaticPreview
StaticConfigs ==
  { Sized(Config(c, s, "undefined", "undefined", Undefined, Undefined, "undefined",
                 Undefined), size[1], size[2]) :
      c \in Canvases,
      s \in { Script({}, "setup(fn)", FALSE), Script({}, "setup(fn)", TRUE),
               Script({}, "draw(fn)", FALSE), Script({"setup", "draw"}, "none", FALSE),
               Script({}, "throw", FALSE), Script({}, "none", FALSE) },
      size \in {<<800, 600>>, <<1950, 2400>>} }

\* requested dimensions: scaled by height, by width, square, at the cap, small
Sizes == { <<1950, 2400>>, <<2400, 1950>>, <<1000, 1000>>, <<900, 900>>, <<400, 300>> }

MainConfigs ==
  { Config("A", s, b, "undefined", mf, mt, cb, Undefined) :
      s \in {Script({"draw"}, "none", FALSE), Script({}, "draw(fn)", FALSE)},
      b \in Behaviors,
      mf \in {<<1>>, <<2>>, <<3>>, Undefined},
      mt \in {<<100>>, Undefined},
      cb \in Callbacks }
  \cup
  { Config("A", s, b, "undefined", mf, Undefined, "undefined", Undefined) :
      s \in FailingScripts,
      b \in {"undefined", "degrade"},
      mf \in {<<2>>, Undefined} }
  \cup
  { Config("A", Script({}, "draw(fn)", FALSE), b, "undefined", lim[1], lim[2],
           "returns", Undefined) :
      b \in {"undefined", "degrade"},
      lim \in InvalidLimits }
  \cup
  { Sized(Config("A", Script({}, "draw(fn)", FALSE), "stop", "undefined", <<2>>,
                 Undefined, "undefined", Undefined), size[1], size[2]) :
      size \in Sizes }
  \cup
  { Config("A", Script({}, "setup(fn)", FALSE), "stop", "undefined", <<2>>, Undefined,
           "undefined", Undefined),
    Config("A", Script({}, "draw(fn)", FALSE), "degrade", "undefined", Undefined,
           Undefined, "undefined", <<2>>) }

\* two engines on the same or on different canvases
PairConfigs(e) ==
  { Config(c, Script({}, "draw(fn)", FALSE), b, "undefined",
           <<2>>, Undefined, "undefined", Undefined) :
      c \in IF e = 1 THEN {"A"} ELSE Canvases,
      b \in IF e = 1 THEN {"stop", "degrade"} ELSE {"stop"} }

\* one engine on a page that lets display frames pass without a callback
IdleConfigs ==
  { Config("A", s, b, "undefined", <<2>>, mt, "undefined", Undefined) :
      s \in {Script({}, "draw(fn)", FALSE), Script({}, "setup(fn)", FALSE)},
      b \in {"stop", "degrade"},
      mt \in {<<100>>, Undefined} }
  \cup
  { Config("A", Script({}, "draw(fn)", FALSE), o[1], o[2], <<2>>, Undefined,
           "undefined", Undefined) :
      o \in { <<"stop", "false">>, <<"stop", "true">>, <<"undefined", "true">>,
              <<"undefined", "false">>, <<"degrade", "true">> } }

\* host = "engine": the page constructs one engine, with any configuration
\* host = "engines": the page constructs up to two engines
\* host = "idle": the page constructs one engine and is idle between calls
EngineConfigs(e) ==
  IF host = "engine" THEN (IF e = 1 THEN MainConfigs ELSE {})
  ELSE IF host = "engines" THEN PairConfigs(e)
  ELSE IF host = "idle" THEN (IF e = 1 THEN IdleConfigs ELSE {})
  ELSE {}

(***************************************************************************)
(* Actions                                                                 *)
(***************************************************************************)
Commit(w) ==
  /\ rafSeq' = w.rafSeq
  /\ rafQueue' = w.rafQueue
  /\ frameQueue' = w.frameQueue
  /\ tickLog' = w.log
  /\ buffer' = w.buffer
  /\ engine' = w.engine
  /\ activePreviewRenderer' = w.active
  /\ renderer' = w.renderer
  /\ activeRendererInstance' = w.activeInstance
  /\ unified' = w.unified
  /\ lastCall' = [threw |-> w.threw, warn |-> w.warn, ret |-> w.ret]
  /\ UNCHANGED <<host, now, call>>

\* host code runs between display frames
HostTurn == frameQueue = <<>>

\* the page can call the methods of engine e
Held(e) == engine[e].built /\ engine[e].held

NewPreviewEngine(e) ==
  /\ HostTurn
  /\ ~engine[e].built
  /\ \E cfg \in EngineConfigs(e) : Commit(initialize(World, e, cfg))

\* renderStaticPreview(config), on a page that renders static previews only
RenderStaticPreview(e) ==
  /\ host = "static" /\ HostTurn
  /\ ~engine[e].built
  /\ \E cfg \in StaticConfigs : Commit(renderStaticPreview(World, e, cfg))

RenderStatic(e) ==
  /\ HostTurn
  /\ Held(e)
  /\ Commit(renderStatic(World, e))

StartLoop(e) ==
  /\ HostTurn
  /\ Held(e)
  /\ rafSeq < MaxRaf
  /\ Commit(startLoop(World, e))

StopLoop(e) ==
  /\ HostTurn
  /\ Held(e)
  /\ Commit(stopLoop(World, e))

Destroy(e) ==
  /\ HostTurn
  /\ Held(e)
  /\ Commit(destroy(World, e))

\* engine.getPreviewStats(): the method assigns nothing and returns the record
GetPreviewStats(e) ==
  /\ HostTurn
  /\ Held(e)
  /\ getPreviewStats(engine[e], now) \in [mode : {"preview"}, scale : Int \X Int,
        semanticWidth : Int, semanticHeight : Int, bufferWidth : Int, bufferHeight : Int,
        frames : Int, stride : Int, totalTimeMs : Int,
        budgetExceeded : {"null", "frame_limit", "time_limit"}]
  /\ UNCHANGED vars

StopActivePreview ==
  /\ HostTurn
  /\ Commit(stopActivePreview(World))

\* the browser starts a display frame: the clock has advanced and the
\* registered callbacks will run
BeginFrame ==
  /\ frameQueue = <<>> /\ rafQueue # <<>>
  /\ rafSeq < MaxRaf
  /\ frameQueue' = rafQueue
  /\ rafQueue' = <<>>
  /\ \E d \in FrameMs : now' = now + d
  /\ tickLog' = <<>>
  /\ UNCHANGED <<host, rafSeq, buffer, engine, activePreviewRenderer,
                 renderer, activeRendererInstance, unified, lastCall, call>>

\* a display frame for which no callback is registered: only the clock moves
\* (taken on the page of host = "idle")
IdleFrame ==
  /\ host = "idle"
  /\ frameQueue = <<>> /\ rafQueue = <<>>
  /\ now < MaxIdle
  /\ \E d \in FrameMs : now' = now + d
  /\ UNCHANGED <<host, rafSeq, rafQueue, frameQueue, tickLog, buffer, engine,
                 activePreviewRenderer, renderer, activeRendererInstance, unified,
                 lastCall, call>>

\* the browser runs the next callback of the display frame
EngineTick ==
  /\ frameQueue # <<>>
  /\ Head(frameQueue).loop.kind = "engine"
  /\ rafSeq < MaxRaf
  /\ Commit(tick([World EXCEPT !.frameQueue = Tail(@)], Head(frameQueue).loop.owner))

\* systems the host may pass to renderCodeModeSystem
Systems(r) ==
  IF r = 1
    THEN { [mode |-> m, source |-> src, totalFrames |-> Undefined,
            width |-> 800, height |-> 600] :
             m \in {"static", "loop"},
             src \in { Script({"draw"}, "none", FALSE), Script({"setup", "draw"}, "none", FALSE),
                       Script({}, "none", FALSE), Script({"draw"}, "throw", FALSE),
                       Script({"draw"}, "none", TRUE) } }
         \cup
         { [mode |-> "loop", source |-> Script({"draw"}, "none", FALSE),
            totalFrames |-> <<2>>, width |-> 800, height |-> 600] }
    ELSE { [mode |-> "loop", source |-> Script({"draw"}, "none", FALSE),
            totalFrames |-> Undefined, width |-> 2400, height |-> 1950] }

SurfacesOf(r) == IF r = 1 THEN {"A"} ELSE Canvases

RenderCodeModeSystem(r) ==
  /\ host = "code" /\ HostTurn
  /\ ~renderer[r].built
  /\ \E system \in Systems(r), canvas \in SurfacesOf(r) :
       Commit(renderCodeModeSystem(World, r, system, canvas))

Render(r) ==
  /\ HostTurn
  /\ renderer[r].built
  /\ rafSeq < MaxRaf
  /\ Commit(renderCR(World, r))

Start(r) ==
  /\ HostTurn
  /\ renderer[r].built
  /\ rafSeq < MaxRaf
  /\ Commit(startCR(World, r))

Stop(r) ==
  /\ HostTurn
  /\ renderer[r].built
  /\ Commit(stopCR(World, r))

DestroyRenderer(r) ==
  /\ HostTurn
  /\ renderer[r].built
  /\ Commit(destroyCR(World, r))

CodeTick ==
  /\ frameQueue # <<>>
  /\ Head(frameQueue).loop.kind = "code"
  /\ rafSeq < MaxRaf
  /\ Commit(loopCR([World EXCEPT !.frameQueue = Tail(@)],
                   Head(frameQueue).loop.owner, Head(frameQueue).loop.frameCount))

\* what the elements of a unified system compile to: no element; elements
\* with draw code; elements without draw code; elements of no known type;
\* a sketch element whose code calls eval()
ElementKinds == {"none", "drawing", "blank", "unknown", "unsafe"}

RenderUnifiedSystem ==
  /\ host = "unified" /\ HostTurn
  /\ ~unified.built
  /\ \E elements \in ElementKinds, size \in {<<1950, 2400>>, <<800, 600>>} :
       Commit(renderUnifiedSystem(World, elements, size, "A"))

RenderUnified ==
  /\ HostTurn
  /\ unified.built
  /\ rafSeq < MaxRaf
  /\ Commit(renderUR(World))

StartUnified ==
  /\ HostTurn
  /\ unified.built
  /\ rafSeq < MaxRaf
  /\ Commit(startUR(World))

StopUnified ==
  /\ HostTurn
  /\ unified.built
  /\ Commit(stopUR(World))

DestroyUnified ==
  /\ HostTurn
  /\ unified.built
  /\ Commit(destroyUR(World))

UnifiedTick ==
  /\ frameQueue # <<>>
  /\ Head(frameQueue).loop.kind = "unified"
  /\ rafSeq < MaxRaf
  /\ Commit(loopUR([World EXCEPT !.frameQueue = Tail(@)], Head(frameQueue).loop.frameCount))

BlankBuffer == [op |-> "blank", by |-> Null, fc |-> 0]

\* no library function is being called on its own
NoCall == [fn |-> "none", args |-> <<>>, result |-> Undefined]

Init ==
  /\ host \in {"engine", "engines", "idle", "code", "unified", "static"}
  /\ now = 50
  /\ rafSeq = 0
  /\ rafQueue = <<>>
  /\ frameQueue = <<>>
  /\ tickLog = <<>>
  /\ buffer = [c \in Canvases |-> BlankBuffer]
  /\ engine = [e \in Engines |-> NoEngine]
  /\ activePreviewRenderer = Null
  /\ renderer = [r \in Renderers |-> NoRenderer]
  /\ activeRendererInstance = Null
  /\ unified = NoUnified
  /\ lastCall = [threw |-> "none", warn |-> "none", ret |-> Undefined]
  /\ call = NoCall

Next ==
  \/ \E e \in Engines : NewPreviewEngine(e)
  \/ \E e \in Engines : RenderStaticPreview(e)
  \/ \E e \in Engines : RenderStatic(e)
  \/ \E e \in Engines : StartLoop(e)
  \/ \E e \in Engines : StopLoop(e)
  \/ \E e \in Engines : Destroy(e)
  \/ \E e \in Engines : GetPreviewStats(e)
  \/ StopActivePreview
  \/ BeginFrame
  \/ IdleFrame
  \/ EngineTick
  \/ \E r \in Renderers : RenderCodeModeSystem(r)
  \/ \E r \in Renderers : Render(r)
  \/ \E r \in Renderers : Start(r)
  \/ \E r \in Renderers : Stop(r)
  \/ \E r \in Renderers : DestroyRenderer(r)
  \/ CodeTick
  \/ RenderUnifiedSystem
  \/ RenderUnified
  \/ StartUnified
  \/ StopUnified
  \/ DestroyUnified
  \/ UnifiedTick

Spec == Init /\ [][Next]_vars

(***************************************************************************)
(* The exported functions of the library, called on their own: the page    *)
(* has constructed nothing, and call holds the function's arguments and    *)
(* then its result.                                                        *)
(***************************************************************************)
NoPage ==
  /\ host = "library"
  /\ now = 50
  /\ rafSeq = 0
  /\ rafQueue = <<>>
  /\ frameQueue = <<>>
  /\ tickLog = <<>>
  /\ buffer = [c \in Canvases |-> BlankBuffer]
  /\ engine = [e \in Engines |-> NoEngine]
  /\ activePreviewRenderer = Null
  /\ renderer = [r \in Renderers |-> NoRenderer]
  /\ activeRendererInstance = Null
  /\ unified = NoUnified
  /\ lastCall = [threw |-> "none", warn |-> "none", ret |-> Undefined]

\* canvas-scaler ---------------------------------------------------------
\* sides around the cap, around rounding ties, and far from the cap
Sides == {1, 2, 3, 5, 100, 450, 731, 899, 900, 901, 902, 1199, 1200, 1201,
          1800, 1801, 1950, 2400, 2401, 3000, 4000}

InitScaler ==
  /\ NoPage
  /\ \E width \in Sides, height \in Sides :
       call = [fn |-> "none", args |-> <<width, height>>, result |-> Undefined]

CalculateScaledDimensions ==
  /\ call.fn = "none"
  /\ call' = [fn |-> "calculateScaledDimensions", args |-> call.args,
              result |-> calculateScaledDimensions(call.args[1], call.args[2])]
  /\ UNCHANGED pageVars

\* reapplyContextScale(canvas, dimensions) on the geometry just computed
ReapplyContextScale ==
  /\ call.fn = "calculateScaledDimensions"
  /\ call' = [fn |-> "reapplyContextScale", args |-> <<call.result>>,
              result |-> reapplyContextScale(call.result)]
  /\ UNCHANGED pageVars

NextScaler ==
  \/ CalculateScaledDimensions
  \/ ReapplyContextScale

SpecScaler == InitScaler /\ [][NextScaler]_vars

\* VAR -------------------------------------------------------------------
\* elements a caller may put in vars: numbers in and out of range, numbers
\* that are not finite, values that are not numbers
Elements ==
  { Num(0), Num(37), Num(100), Num(101), Num(-1), Js("NaN", 0), Js("Infinity", 0),
    Js("-Infinity", 0), Js("string", 2), Js("null", 0), JsUndefined }

RECURSIVE Arrays(_)
Arrays(k) ==
  IF k = 0 THEN {<<>>}
  ELSE LET shorter == Arrays(k - 1)
       IN shorter \cup { Append(a, x) : a \in {b \in shorter : Len(b) = k - 1},
                                         x \in Elements }

\* vars as the caller passes it: absent, null, not an array, or an array of
\* up to MaxVaried chosen elements followed by a run of 50s
VarsInputs ==
  { JsUndefined, Js("null", 0), Js("string", 3), Js("number", 7) }
  \cup { Array(a \o [i \in 1..k |-> Num(50)]) :
           a \in Arrays(MaxVaried), k \in {0, 8, 9, 10, 11} }

InitVars ==
  /\ NoPage
  /\ \E given \in VarsInputs :
       call = [fn |-> "none", args |-> <<given>>, result |-> Undefined]

\* createPreviewRuntime(canvas, width, height, seed, vars): the VAR of the runtime
CreatePreviewRuntime ==
  /\ call.fn = "none"
  /\ call' = [fn |-> "createPreviewRuntime", args |-> call.args,
              result |-> frozenVars(call.args[1])]
  /\ UNCHANGED pageVars

\* the script assigns to an element of VAR; args keeps the vector as created
ScriptAssignsVAR ==
  /\ call.fn = "createPreviewRuntime"
  /\ \E i \in {1, VAR_COUNT}, v \in {Num(999), Js("string", 2)} :
       call' = [fn |-> "VAR[i] = v", args |-> <<call.result>>,
                result |-> ArraySet(call.result, i, v)]
  /\ UNCHANGED pageVars

NextVars ==
  \/ CreatePreviewRuntime
  \/ ScriptAssignsVAR

SpecVars == InitVars /\ [][NextVars]_vars

\* system.ts -------------------------------------------------------------
InitSystem ==
  /\ NoPage
  /\ \E given \in VarsInputs, size \in {<<100, 100>>, <<0, 100>>, <<100, 5000>>} :
       call = [fn |-> "none", args |-> <<CodeSystem(size[1], size[2], given)>>,
               result |-> Undefined]

ValidateSystem ==
  /\ call.fn = "none"
  /\ call' = [fn |-> "validateSystem", args |-> call.args,
              result |-> validateSystem(call.args[1])]
  /\ UNCHANGED pageVars

CreateSystem ==
  /\ call.fn = "none"
  /\ call' = [fn |-> "createSystem", args |-> call.args,
              result |-> createSystem(call.args[1])]
  /\ UNCHANGED pageVars

NextSystem ==
  \/ ValidateSystem
  \/ CreateSystem

SpecSystem == InitSystem /\ [][NextSystem]_vars

\* code-renderer.ts: the scope of a compiled script ------------------------
MaxLoopFrames == 3

\* staticCache: the keys of the runtime outside liveProps, with the values the
\* runtime has when compileSource runs
staticCache(runtime) ==
  [key \in {RuntimeKeys[i] : i \in 1..Len(RuntimeKeys)} \ liveProps |->
     RuntimeValue(runtime, key)]

knownKeys(cache) ==
  liveProps \cup DOMAIN cache \cup {"__registerSetup", "__registerDraw"}

\* a has trap that answers true for every name
scopeHasEveryName(scope, prop) == TRUE

\* the has trap of the Proxy
scopeHas(scope, prop) == prop \in scope.knownKeys

\* the get trap of the Proxy; runtimeRef is the runtime object as it is when
\* the trap runs
scopeGet(scope, runtimeRef, prop) ==
  IF prop \in liveProps THEN RuntimeValue(runtimeRef, prop)
  ELSE IF prop = "__registerSetup" THEN NativeFn("registerSetup")
  ELSE IF prop = "__registerDraw" THEN NativeFn("registerDraw")
  ELSE IF prop \in DOMAIN scope.staticCache THEN scope.staticCache[prop]
  ELSE UndefinedVal

\* the global names of the environment in which new Function compiles the text
HostGlobals == {"Math", "console"}

\* a bare name read outside every with block: the global of that name, or a
\* ReferenceError
hostResolve(name) ==
  IF name \in HostGlobals THEN Val("host", name, "", 0, FALSE)
  ELSE Val("ReferenceError", name, "", 0, TRUE)

\* a bare name read inside with (__scope): the scope object when its has trap
\* answers true, the enclosing environment otherwise
withScopeRead(scope, runtimeRef, name) ==
  IF scopeHas(scope, name) THEN scopeGet(scope, runtimeRef, name)
  ELSE hostResolve(name)

ScopeNames ==
  liveProps \cup {"width", "height", "PI", "circle", "background",
                  "__registerDraw", "Math", "console", "undeclared"}

\* args: the name the script reads, the runtime as compileSource created it,
\* and the runtime object as it is now
InitScope ==
  /\ NoPage
  /\ \E name \in ScopeNames, width \in {100, 2400}, totalFrames \in {2, DEFAULT_TOTAL_FRAMES} :
       LET runtime == [createPreviewRuntime EXCEPT !.width = width, !.height = width,
                                                   !.totalFrames = totalFrames]
       IN call = [fn |-> "none", args |-> <<name, runtime, runtime>>, result |-> Undefined]

\* compileSource builds the scope object
CompileScope ==
  /\ call.fn = "none"
  /\ call' = [fn |-> "compileSource", args |-> call.args,
              result |-> [staticCache |-> staticCache(call.args[2]),
                          knownKeys |-> knownKeys(staticCache(call.args[2]))]]
  /\ UNCHANGED pageVars

\* a frame of the loop writes the time-varying fields of the runtime
LoopFrame ==
  /\ call.fn = "compileSource"
  /\ call.args[3].frameCount < MaxLoopFrames
  /\ call' = [call EXCEPT !.args[3] = Timing(@, @.frameCount + 1, @.totalFrames)]
  /\ UNCHANGED pageVars

\* the script reads the bare name
ScriptReadsName ==
  /\ call.fn = "compileSource"
  /\ call' = [fn |-> "read", args |-> call.args,
              result |-> [scope |-> call.result,
                          value |-> withScopeRead(call.result, call.args[3], call.args[1])]]
  /\ UNCHANGED pageVars

NextScope ==
  \/ CompileScope
  \/ LoopFrame
  \/ ScriptReadsName

SpecScope == InitScope /\ [][NextScope]_vars

(***************************************************************************)
(* Properties                                                              *)
(***************************************************************************)
Steps(log) == {log[i] : i \in 1..Len(log)}

\* the callbacks of a loop that are registered with the browser
PendingOf(queue, kind, owner) ==
  {i \in 1..Len(queue) : queue[i].loop.kind = kind /\ queue[i].loop.owner = owner}

\* is the loop that owns a callback running (not stopped, not destroyed)?
IsLive(engines, renderers, uni, loop) ==
  CASE loop.kind = "engine" -> engines[loop.owner].running
    [] loop.kind = "code"   -> renderers[loop.owner].isRunning /\ ~renderers[loop.owner].isDestroyed
    [] OTHER                -> uni.isRunning /\ ~uni.isDestroyed

\* the frame id the owner of a loop holds for its next tick
HeldId(engines, renderers, uni, loop) ==
  CASE loop.kind = "engine" -> engines[loop.owner].animationFrameId
    [] loop.kind = "code"   -> renderers[loop.owner].animationId
    [] OTHER                -> uni.animationId

\* C1: in each of the three loops the tick callback requests the next
\* animation frame as its first step: the request comes before the
\* running/destroyed check, before the increment of the frame counter, before
\* the budget or throttle check and before the draw call, and a tick makes
\* one request only.
C1_ScheduleFirst ==
  tickLog # <<>> =>
    /\ tickLog[1] = "raf"
    /\ \A i \in 2..Len(tickLog) : tickLog[i] # "raf"

\* a PreviewEngine tick that went through the budget check and called drawFn
C1_Witness ==
  /\ host = "engine"
  /\ {"raf", "inc", "budget", "update", "draw"} \subseteq Steps(tickLog)

\* C2: every executed tick requests exactly one animation frame, and when the
\* loop is still running after the tick (whatever its gates answered: budget
\* check false in degrade mode, stride skip, throttle skip, no draw function,
\* draw throwing) that one request is registered with the browser for the
\* same loop and its id is the one the owner holds; so N executed ticks make
\* N requests and a false gate never ends the loop.
C2_TickAlwaysReschedules ==
  [][frameQueue # <<>> =>
       LET loop == Head(frameQueue).loop
       IN /\ rafSeq' = rafSeq + 1
          /\ IsLive(engine', renderer', unified', loop) =>
               /\ Len(rafQueue') = Len(rafQueue) + 1
               /\ rafQueue'[Len(rafQueue')].id = rafSeq'
               /\ rafQueue'[Len(rafQueue')].loop.kind = loop.kind
               /\ rafQueue'[Len(rafQueue')].loop.owner = loop.owner
               /\ HeldId(engine', renderer', unified', loop) = rafSeq']_vars

\* a degraded PreviewEngine after a tick that the stride skipped: still
\* running, with its next tick registered
C2_Witness ==
  /\ tickLog # <<>> /\ tickLog[Len(tickLog)] = "skip"
  /\ \E e \in Engines :
       /\ engine[e].running
       /\ engine[e].budgetExceededReason # "null"
       /\ PendingOf(rafQueue, "engine", e) # {}

\* budgetBehavior ?? 'stop'
BehaviorOf(cfg) == IF cfg.budgetBehavior = "undefined" THEN "stop" ELSE cfg.budgetBehavior

\* C3: a PreviewEngine with budgetBehavior 'stop', maxFrames = M >= 1 and a time
\* limit that is not reached: whatever number of ticks follows startLoop, the
\* frame counter never passes M, and once it is M the reason is
\* 'frame_limit', isRendering() is false and drawFn has not been invoked on
\* tick M or after it.
C3_StopFreezesAtMaxFrames ==
  \A e \in Engines :
    LET o == engine[e]
    IN (/\ o.built
        /\ BehaviorOf(o.cfg) = "stop"
        /\ o.cfg.maxFrames # Undefined /\ Coalesce(o.cfg.maxFrames, 0) >= 1
        /\ o.cfg.maxTimeMs = Undefined)
       => /\ o.internalFrameCount <= o.cfg.maxFrames[1]
          /\ o.internalFrameCount = o.cfg.maxFrames[1] =>
               /\ o.budgetExceededReason = "frame_limit"
               /\ ~o.running
               /\ o.lastDrawTick < o.cfg.maxFrames[1]

\* C4: within one loop session the onBudgetExceeded callback has been
\* invoked once if a ceiling has been crossed in the session and not at all
\* otherwise: never twice when both ceilings are crossed on one tick, never
\* again on the later ticks of a degraded loop, and once more, at most, in
\* the session that a restart by startLoop() opens.
C4_NotifiedOncePerSession ==
  \A e \in Engines :
    LET o == engine[e]
        crossed == \/ /\ o.internalFrameCount >= 1
                      /\ o.internalFrameCount >= Coalesce(o.cfg.maxFrames, MAX_FRAMES)
                   \/ o.budgetExceededReason # "null"
    IN (o.built /\ o.cfg.onBudgetExceeded # "undefined")
       => o.notified = (IF crossed THEN 1 ELSE 0)

\* a degraded loop with a callback, two ticks or more past the tick that
\* crossed the ceiling
C4_Witness ==
  \E e \in Engines :
    /\ engine[e].cfg.onBudgetExceeded = "returns"
    /\ engine[e].cfg.budgetBehavior = "degrade"
    /\ engine[e].budgetExceededReason # "null"
    /\ engine[e].internalFrameCount >= engine[e].exceededAt + 2
    /\ engine[e].notified = 1

\* C5: a PreviewEngine with budgetBehavior 'degrade' whose script has a
\* draw function (and whose onBudgetExceeded callback, if any, returns):
\* once a ceiling has been crossed the loop is still running with stride
\* DEGRADE_STRIDE, and of the K ticks from the exceed point on the number
\* that invoked drawFn is K/2 within 1.
C5_DegradeDrawsEverySecondTick ==
  \A e \in Engines :
    LET o == engine[e]
        K == o.internalFrameCount - o.exceededAt + 1
        draws == o.drawCalls - o.drawsBefore
    IN (/\ o.built /\ ~o.destroyed /\ o.running
        /\ o.cfg.budgetBehavior = "degrade"
        /\ o.cfg.onBudgetExceeded # "throws"
        /\ o.cfg.source.decl # {} \/ o.cfg.source.top = "draw(fn)"
        /\ o.budgetExceededReason # "null")
       => /\ o.currentStride = DEGRADE_STRIDE
          /\ 2 * draws >= K - 2
          /\ 2 * draws <= K + 2

\* C6: live binding: whenever a loop has called the script's draw function,
\* the value the function read for the bare name frameCount on the draw of
\* tick N is N, the value the loop wrote for that tick, in the loops of
\* renderCodeModeSystem and of PreviewEngine alike.
C6_DrawObservesTickNumber ==
  /\ \A e \in Engines :
       engine[e].drawCalls > 0 => engine[e].observed = engine[e].lastDrawTick
  /\ \A r \in Renderers :
       renderer[r].drawCalls > 0 => renderer[r].observed = renderer[r].lastDrawTick

\* C7: after compilation of a script made of top-level declarations, drawFn
\* holds the script's function draw exactly when the script declares one,
\* and setupFn its function setup exactly when it declares one, in
\* PreviewEngine (compiled by the constructor) and in renderCodeModeSystem
\* (compiled by render / start).
C7_DeclaredFunctionsRegistered ==
  /\ \A e \in Engines :
       (engine[e].built /\ ~engine[e].destroyed /\ engine[e].cfg.source.top = "none")
       => /\ (engine[e].drawFn.k = "function") = ("draw" \in engine[e].cfg.source.decl)
          /\ (engine[e].setupFn.k = "function") = ("setup" \in engine[e].cfg.source.decl)
  /\ \A r \in Renderers :
       (renderer[r].built /\ ~renderer[r].runtimeNull /\ renderer[r].system.source.top = "none")
       => /\ (renderer[r].drawFn.k = "function") = ("draw" \in renderer[r].system.source.decl)
          /\ (renderer[r].setupFn.k = "function") = ("setup" \in renderer[r].system.source.decl)

\* the loop of a PreviewEngine has been halted by its budget and not restarted
BudgetStopped(o) ==
  o.built /\ ~o.running /\ o.budgetExceededReason # "null" /\ BehaviorOf(o.cfg) = "stop"

\* C8: from a budget stop on, no step invokes drawFn or leaves a tick of the
\* engine registered while the engine stays stopped; the step that makes it
\* running again (startLoop) leaves the budget state reset: frame counter 0,
\* start timestamp now, stride 1, reason cleared, overlay removed, and one
\* tick registered.
C8_RestartResetsBudget ==
  [][\A e \in Engines :
       BudgetStopped(engine[e]) =>
         IF engine'[e].running
           THEN /\ engine'[e].internalFrameCount = 0
                /\ engine'[e].startTimeMs = now'
                /\ engine'[e].currentStride = 1
                /\ engine'[e].budgetExceededReason = "null"
                /\ ~engine'[e].overlayElement
                /\ engine'[e].drawCalls = 0
                /\ Cardinality(PendingOf(rafQueue', "engine", e)) = 1
                /\ PendingOf(frameQueue', "engine", e) = {}
           ELSE /\ engine'[e].drawCalls = engine[e].drawCalls
                /\ engine'[e].lastDrawTick = engine[e].lastDrawTick
                /\ PendingOf(rafQueue', "engine", e) = {}
                /\ PendingOf(frameQueue', "engine", e) = {}]_vars

\* an engine that the budget has stopped, with its overlay shown, and that
\* startLoop() has made running again
C8_Witness ==
  \E e \in Engines :
    /\ engine[e].budgetStops = 1
    /\ engine[e].cfg.budgetBehavior = "stop"
    /\ engine[e].running
    /\ engine[e].internalFrameCount = 0
    /\ PendingOf(rafQueue, "engine", e) # {}

\* C9: single owner per surface: the construction of a renderer on a canvas
\* leaves every renderer constructed earlier on that canvas stopped, with no
\* tick registered, for new PreviewEngine and for renderCodeModeSystem.
C9_ConstructionEvictsPrior ==
  [][/\ \A e \in Engines, p \in Engines :
          (/\ p # e /\ ~engine[e].built /\ engine'[e].built
           /\ engine[p].built /\ engine[p].cfg.canvas = engine'[e].cfg.canvas)
          => /\ ~engine'[p].running
             /\ PendingOf(rafQueue', "engine", p) = {}
     /\ \A r \in Renderers, p \in Renderers :
          (/\ p # r /\ ~renderer[r].built /\ renderer'[r].built
           /\ renderer[p].built /\ renderer[p].canvas = renderer'[r].canvas)
          => /\ ~renderer'[p].isRunning
             /\ PendingOf(rafQueue', "code", p) = {}]_vars

\* C10: Destroyed is terminal: a destroyed renderer is not running and has
\* no tick registered, whatever is called on it afterwards, for PreviewEngine
\* and for the renderer of renderCodeModeSystem.
C10_DestroyedIsTerminal ==
  /\ \A e \in Engines :
       engine[e].destroyed =>
         /\ ~engine[e].running
         /\ PendingOf(rafQueue, "engine", e) = {}
         /\ PendingOf(frameQueue, "engine", e) = {}
  /\ \A r \in Renderers :
       renderer[r].isDestroyed =>
         /\ ~renderer[r].isRunning
         /\ PendingOf(rafQueue, "code", r) = {}
         /\ PendingOf(frameQueue, "code", r) = {}

\* the callbacks of a loop registered for the next or for the current frame
Registered(kind, owner) ==
  PendingOf(rafQueue, kind, owner) \cup PendingOf(frameQueue, kind, owner)

\* C11: cancellation is immediate: once stopLoop() / stop() / destroy() has
\* returned, from host code or from inside a tick, the loop is not running,
\* its stored frame id is null and none of its tick callbacks is registered,
\* so none fires afterwards; a loop that is not running has no tick left.
C11_StoppedLoopHasNoTick ==
  /\ \A e \in Engines :
       ~engine[e].running =>
         engine[e].animationFrameId = Null /\ Registered("engine", e) = {}
  /\ \A r \in Renderers :
       ~renderer[r].isRunning =>
         renderer[r].animationId = Null /\ Registered("code", r) = {}
  /\ ~unified.isRunning =>
       unified.animationId = Null /\ Registered("unified", 1) = {}

C13_DrawErrorCaught ==
  [][frameQueue # <<>> =>
       LET loop == Head(frameQueue).loop
           e == loop.owner
       IN /\ (loop.kind = "engine" /\ engine[e].drawFn.thr /\ "draw" \in Steps(tickLog')) =>
               /\ lastCall'.threw = "none" /\ lastCall'.warn = "draw"
               /\ engine'[e].running = engine[e].running
               /\ engine'[e].drawCalls = engine[e].drawCalls + 1
               /\ engine'[e].lastDrawTick = engine[e].internalFrameCount + 1
               /\ engine[e].currentStride = 1 =>
                    engine'[e].lastDrawTick = engine[e].lastDrawTick + 1
               /\ engine'[e].running => PendingOf(rafQueue', "engine", e) # {}
          /\ (loop.kind = "code" /\ renderer[e].drawFn.thr /\ "draw" \in Steps(tickLog')) =>
               /\ lastCall'.threw = "none" /\ lastCall'.warn = "draw"
               /\ renderer'[e].isRunning = renderer[e].isRunning
               /\ renderer'[e].drawCalls = renderer[e].drawCalls + 1
               /\ renderer'[e].lastDrawTick = loop.frameCount + 1
               /\ PendingOf(rafQueue', "code", e) # {}]_vars

\* a running engine whose draw function has thrown on two ticks
C13_Witness ==
  \E e \in Engines :
    /\ engine[e].drawFn.thr
    /\ engine[e].running
    /\ engine[e].drawCalls >= 2
    /\ lastCall.warn = "draw"

\* C14: the budget arbiter never throws: no tick of a PreviewEngine ends
\* with an exception, whatever the configuration; and with an invalid ceiling
\* (maxFrames <= 0 or maxTimeMs <= 0) the budget is exceeded on tick 1: the
\* reason is recorded on that tick, the callback has been notified once, and
\* under 'stop' that tick does not draw and halts the loop.
C14_ArbiterNeverThrows ==
  /\ host \in {"engine", "engines"} => lastCall.threw = "none"
  /\ \A e \in Engines :
       LET o == engine[e]
       IN (/\ o.built /\ o.internalFrameCount >= 1
           /\ \/ Coalesce(o.cfg.maxFrames, MAX_FRAMES) <= 0
              \/ Coalesce(o.cfg.maxTimeMs, MAX_TOTAL_TIME_MS) <= 0)
          => /\ o.budgetExceededReason # "null"
             /\ o.exceededAt = 1
             /\ o.cfg.onBudgetExceeded # "undefined" => o.notified = 1
             /\ BehaviorOf(o.cfg) = "stop" =>
                  o.drawCalls = 0 /\ ~o.running /\ o.internalFrameCount = 1

\* C15: getPreviewStats() is a pure read: the elapsed time it reports is 0
\* as long as startLoop() has not started a session (renderStatic() alone
\* included), and once the loop is stopped two reads between which the
\* engine does nothing return the same record (frames, stride,
\* budgetExceeded, scale, sizes and elapsed time).
C15_StatsFrozenWhenIdle ==
  [][\A e \in Engines :
       LET o == engine[e]
       IN (o.built /\ engine'[e] = o) =>
            /\ ~o.loopStarted => getPreviewStats(engine'[e], now').totalTimeMs = 0
            /\ (o.loopStarted /\ ~o.running) =>
                 getPreviewStats(engine'[e], now') = getPreviewStats(o, now)]_vars

\* C16: semantic stability: in every state of every renderer the width and
\* height the script sees (the runtime's width and height, semanticWidth and
\* semanticHeight of the stats) are the dimensions the caller requested; when
\* the buffer was scaled they differ from the buffer's dimensions on the
\* scaled axes; starting, stopping, restarting and exceeding the budget leave
\* them as they are.
C16_SemanticStability ==
  /\ \A e \in Engines :
       LET o == engine[e]
           stats == getPreviewStats(o, now)
       IN o.built =>
            /\ stats.semanticWidth = o.cfg.width /\ stats.semanticHeight = o.cfg.height
            /\ ~o.runtimeNull =>
                 o.runtime.width = o.cfg.width /\ o.runtime.height = o.cfg.height
            /\ (o.scaled.wasScaled /\ ~o.runtimeNull) =>
                 /\ <<o.runtime.width, o.runtime.height>> # <<stats.bufferWidth, stats.bufferHeight>>
                 /\ o.cfg.width > MAX_DIMENSION => o.runtime.width # stats.bufferWidth
                 /\ o.cfg.height > MAX_DIMENSION => o.runtime.height # stats.bufferHeight
  /\ \A r \in Renderers :
       LET o == renderer[r]
       IN (o.built /\ ~o.runtimeNull) =>
            /\ o.runtime.width = o.system.width /\ o.runtime.height = o.system.height
            /\ o.scaled.wasScaled =>
                 <<o.runtime.width, o.runtime.height>> #
                   <<o.scaled.renderWidth, o.scaled.renderHeight>>
  /\ (unified.built /\ unified.runtimeSize # <<0, 0>>) =>
       /\ unified.runtimeSize = <<unified.width, unified.height>>
       /\ unified.scaled.wasScaled =>
            unified.runtimeSize # <<unified.scaled.renderWidth, unified.scaled.renderHeight>>

\* an engine whose buffer was scaled has run into its frame budget and stopped
C16_Witness ==
  \E e \in Engines :
    /\ engine[e].scaled.wasScaled
    /\ engine[e].cfg.width = 1950 /\ engine[e].runtime.width = 1950
    /\ engine[e].scaled.renderWidth = 731
    /\ engine[e].budgetExceededReason = "frame_limit"
    /\ ~engine[e].running /\ engine[e].loopStarted

Abs(x) == IF x >= 0 THEN x ELSE -x

C18_OneScaleFactor ==
  /\ call.fn = "calculateScaledDimensions" =>
       LET g == call.result
       IN /\ SameFactor(g.scaleFactor, <<g.renderWidth, g.originalWidth>>)
          /\ SameFactor(g.scaleFactor, <<g.renderHeight, g.originalHeight>>)
  /\ call.fn = "reapplyContextScale" =>
       SameFactor(call.result, call.args[1].scaleFactor)

\* C19: whatever the caller passes as vars (nothing, fewer than 10 values,
\* more than 10, values that are not numbers, not finite or out of range),
\* the VAR of the runtime is a vector of exactly 10 numbers in [0, 100],
\* with 0 at the positions the caller gave no value for; it is frozen, and
\* an assignment by the script leaves it as it was created.
C19_VarVector ==
  call.fn \in {"createPreviewRuntime", "VAR[i] = v"} =>
    LET VAR == call.result
        given == IF call.fn = "createPreviewRuntime" THEN call.args[1] ELSE Array(<<>>)
    IN /\ VAR.t = "array" /\ VAR.frozen
       /\ Len(VAR.items) = 10
       /\ \A i \in 1..Len(VAR.items) :
            /\ VAR.items[i].t = "number"
            /\ VAR.items[i].n >= 0 /\ VAR.items[i].n <= 100
       /\ call.fn = "createPreviewRuntime" =>
            \A i \in 1..10 :
              (given.t # "array" \/ i > Len(given.items)) => VAR.items[i] = Num(0)
       /\ call.fn = "VAR[i] = v" => VAR = call.args[1]

\* the script has assigned to an element of a VAR made from 12 values, the
\* first two out of range
C19_Witness ==
  /\ call.fn = "VAR[i] = v"
  /\ call.result.items[1] = Num(100) /\ call.result.items[2] = Num(0)
  /\ call.result.items[10] = Num(50)

\* C20: validateSystem on a code system (its other fields valid) answers
\* valid when vars is omitted, empty, or 1 to 10 finite numbers in [0, 100];
\* it answers invalid, with an error that has the prefix
\* [Code Mode Protocol Error], when vars has more than 10 elements ("VAR
\* array must have at most 10 elements"), an element below 0 or above 100
\* ("is out of range") or an element that is not a finite number ("must be
\* a finite number"); createSystem throws exactly when validateSystem
\* answers invalid.
C20_VarsValidated ==
  LET input == call.args[1]
      given == input.vars
      items == given.items
      fieldsValid == input.width = 100 /\ input.height = 100
      tooLong == given.t = "array" /\ Len(items) > 10
      notNumber == given.t = "array" /\ \E i \in 1..Len(items) : items[i].t # "number"
      outOfRange == given.t = "array" /\
                      \E i \in 1..Len(items) :
                        items[i].t = "number" /\ (items[i].n < 0 \/ items[i].n > 100)
      good == given.t = "undefined" \/ (given.t = "array" /\ ~tooLong /\ ~notNumber /\ ~outOfRange)
      Reported(r) == \E k \in 1..Len(r.errors) : r.errors[k].prefix = "[Code Mode Protocol Error]"
  IN /\ (call.fn = "validateSystem" /\ fieldsValid) =>
          /\ good => call.result.valid
          /\ (tooLong \/ notNumber \/ outOfRange) =>
                ~call.result.valid /\ Reported(call.result)
     /\ call.fn = "createSystem" =>
          (call.result.threw <=> ~validateSystem(input).valid)
     /\ (call.fn = "createSystem" /\ fieldsValid) =>
          (call.result.threw <=> ~good)

\* C21: static-frame mode is one synchronous pass: renderStatic() of a
\* PreviewEngine, and render() of a renderCodeModeSystem renderer whose mode
\* is 'static', set the time-varying fields from frame counter 0, clear the
\* buffer and invoke the registered drawFn exactly once; they schedule no
\* tick and do not set the running flag.
C21_StaticDrawsOnce ==
  [][/\ \A e \in Engines :
          (RenderStatic(e) /\ engine'[e].drawFn.k # "null") =>
            /\ engine'[e].drawCalls = engine[e].drawCalls + 1
            /\ engine'[e].runtime.frameCount = 0
            /\ buffer'[engine[e].cfg.canvas].by = e
            /\ rafSeq' = rafSeq /\ rafQueue' = rafQueue
            /\ engine'[e].running = engine[e].running
     /\ \A r \in Renderers :
          (/\ Render(r) /\ renderer[r].system.mode = "static"
           /\ ~renderer[r].isDestroyed /\ renderer'[r].drawFn.k # "null") =>
            /\ renderer'[r].drawCalls = renderer[r].drawCalls + 1
            /\ renderer'[r].runtime.frameCount = 0
            /\ buffer'[renderer[r].canvas].by = r
            /\ rafSeq' = rafSeq /\ rafQueue' = rafQueue
            /\ ~renderer'[r].isRunning]_vars


\* C22: PreviewEngine.renderStatic() never throws.  When the setup function
\* it runs throws, it returns { success: false, framesRendered: 0,
\* terminatedEarly: true, terminationReason: 'error', errorMessage };
\* otherwise it returns { success: true, framesRendered: 1,
\* terminatedEarly: false } without terminationReason.
\* renderStaticPreview(config) returns the same record and leaves its engine
\* destroyed, not running and with no animation frame requested.
C22_RenderStaticNeverThrows ==
  [][\A e \in Engines :
       /\ RenderStatic(e) =>
            /\ lastCall'.threw = "none"
            /\ lastCall'.ret =
                 IF engine[e].setupFn.k # "null" /\ engine[e].setupFn.thr
                   THEN <<RenderResult(FALSE, 0, TRUE, "error", TRUE)>>
                   ELSE <<RenderResult(TRUE, 1, FALSE, "undefined", FALSE)>>
       /\ RenderStaticPreview(e) =>
            /\ lastCall'.threw = "none"
            /\ lastCall'.ret =
                 IF /\ engine'[e].cfg.source.top = "setup(fn)"
                    /\ engine'[e].cfg.source.thr
                   THEN <<RenderResult(FALSE, 0, TRUE, "error", TRUE)>>
                   ELSE <<RenderResult(TRUE, 1, FALSE, "undefined", FALSE)>>
            /\ engine'[e].destroyed /\ ~engine'[e].running
            /\ rafQueue' = rafQueue /\ rafSeq' = rafSeq]_vars

\* renderStaticPreview has run a script whose setup function throws: the
\* failure record came back and the engine is destroyed
C22_Witness ==
  \E e \in Engines :
    /\ host = "static"
    /\ engine[e].built /\ engine[e].destroyed /\ ~engine[e].running
    /\ engine[e].cfg.source = Script({}, "setup(fn)", TRUE)
    /\ lastCall.threw = "none"
    /\ lastCall.ret = <<RenderResult(FALSE, 0, TRUE, "error", TRUE)>>


\* C23: the only exception that reaches the caller of a renderer is the
\* zero-renderers report of renderUnifiedSystem; every other failure during
\* construction, start or a tick (unsafe or failing sketch code, failing
\* setup, failing draw) is swallowed with a diagnostic.
C23_OnlyZeroRenderersEscapes ==
  [][lastCall'.threw \in {"none", "zero-renderers"}]_vars


\* C24: requesting a loop when no draw function is registered does not throw
\* and follows the "no draw function" path.  PreviewEngine.startLoop() returns
\* normally and its ticks invoke no draw; render()/start() of
\* renderCodeModeSystem return normally, fall back to the static pass (not
\* running, no animation frame requested) and invoke no draw; stopLoop(),
\* stop() and destroy() still return normally and leave the loop stopped.
C24_NoDrawFunctionPath ==
  [][/\ \A e \in Engines :
          (engine[e].built /\ engine[e].drawFn.k = "null") =>
            /\ StartLoop(e) => (lastCall'.threw = "none" /\ lastCall'.warn # "draw")
            /\ engine'[e].drawCalls <= engine[e].drawCalls
            /\ (EngineTick /\ Head(frameQueue).loop.owner = e) =>
                 lastCall'.warn # "draw"
            /\ StopLoop(e) => (lastCall'.threw = "none" /\ ~engine'[e].running)
            /\ Destroy(e) => /\ lastCall'.threw = "none"
                             /\ ~engine'[e].running /\ engine'[e].destroyed
     /\ \A r \in Renderers :
          (/\ renderer[r].built /\ ~renderer[r].isDestroyed
           /\ renderer[r].system.mode = "loop"
           /\ renderer'[r].drawFn.k = "null") =>
            /\ (Render(r) \/ Start(r)) =>
                 /\ lastCall'.threw = "none"
                 /\ ~renderer'[r].isRunning
                 /\ rafSeq' = rafSeq
            /\ renderer'[r].drawCalls = renderer[r].drawCalls
            /\ Stop(r) => (lastCall'.threw = "none" /\ ~renderer'[r].isRunning)
            /\ DestroyRenderer(r) => /\ lastCall'.threw = "none"
                                     /\ ~renderer'[r].isRunning
                                     /\ renderer'[r].isDestroyed]_vars

\* an engine without draw function has been started and has run two ticks
\* without a draw
C24_Witness ==
  \E e \in Engines :
    /\ engine[e].built /\ engine[e].running /\ engine[e].drawFn.k = "null"
    /\ engine[e].internalFrameCount >= 2 /\ engine[e].drawCalls = 0

\* C25: when a tick stops the engine because the budget is exceeded under
\* 'stop' behaviour ('stop' is also the behaviour when budgetBehavior is left
\* unspecified), the overlay is shown unless showOverlay is false; the next
\* startLoop() and destroy() remove the engine's overlay element.
C25_OverlayShownByDefault ==
  [][\A e \in Engines :
       /\ (/\ EngineTick /\ Head(frameQueue).loop.owner = e
           /\ engine[e].budgetExceededReason = "null"
           /\ engine'[e].budgetExceededReason # "null"
           /\ engine[e].cfg.budgetBehavior \in {"stop", "undefined"}
           /\ lastCall'.threw = "none") =>
            engine'[e].overlayElement = (engine[e].cfg.showOverlay # "false")
       /\ (StartLoop(e) /\ ~engine[e].running) => ~engine'[e].overlayElement
       /\ Destroy(e) => ~engine'[e].overlayElement]_vars

\* C26: stride invariant of PreviewEngine.  In every reachable state the
\* stride (currentStride, which getPreviewStats().stride reports) is 1 unless
\* budgetBehavior is 'degrade' and the budget has been exceeded in the
\* current loop session; under 'stop', explicit or default, it is always 1,
\* and it is 1 whenever the exceeded reason is unset.
C26_StrideInvariant ==
  \A e \in Engines :
    engine[e].built =>
      /\ getPreviewStats(engine[e], now).stride = engine[e].currentStride
      /\ engine[e].currentStride \in {1, DEGRADE_STRIDE}
      /\ engine[e].currentStride # 1 =>
           /\ engine[e].cfg.budgetBehavior = "degrade"
           /\ engine[e].budgetExceededReason # "null"
      /\ engine[e].cfg.budgetBehavior \in {"stop", "undefined"} =>
           engine[e].currentStride = 1
      /\ engine[e].budgetExceededReason = "null" => engine[e].currentStride = 1

\* a degrading engine has exceeded its budget and runs at the degraded stride
C26_Witness ==
  \E e \in Engines :
    /\ engine[e].built /\ engine[e].running
    /\ engine[e].cfg.budgetBehavior = "degrade"
    /\ engine[e].budgetExceededReason # "null"
    /\ engine[e].currentStride = DEGRADE_STRIDE

\* C27: the frame index the script sees (runtime.frameCount) starts at 0,
\* never decreases within a loop session, and grows by exactly 1 between two
\* consecutive draw invocations of one session, also in degrade mode where
\* ticks are skipped.
C27_FrameIndexCountsDraws ==
  [][/\ \A e \in Engines :
          /\ NewPreviewEngine(e) => engine'[e].runtime.frameCount = 0
          /\ (/\ EngineTick /\ Head(frameQueue).loop.owner = e
              /\ engine[e].drawCalls >= 1) =>
               /\ engine'[e].runtime.frameCount >= engine[e].runtime.frameCount
               /\ engine'[e].drawCalls = engine[e].drawCalls + 1 =>
                    engine'[e].runtime.frameCount = engine[e].runtime.frameCount + 1
     /\ \A r \in Renderers :
          /\ RenderCodeModeSystem(r) => renderer'[r].runtime.frameCount = 0
          /\ (/\ CodeTick /\ Head(frameQueue).loop.owner = r
              /\ renderer[r].drawCalls >= 1) =>
               /\ renderer'[r].runtime.frameCount >= renderer[r].runtime.frameCount
               /\ renderer'[r].drawCalls = renderer[r].drawCalls + 1 =>
                    renderer'[r].runtime.frameCount = renderer[r].runtime.frameCount + 1]_vars

\* C28: in the loops of PreviewEngine and of renderCodeModeSystem every
\* invocation of drawFn is preceded, in the same tick and after the refresh
\* of the time fields, by clearCanvasIgnoringTransform; a tick that is
\* skipped (stride, loop stopped, budget stop) neither clears nor draws.
C28_ClearBeforeDraw ==
  host # "unified" =>
    LET Steps28 == {tickLog[i] : i \in 1..Len(tickLog)}
    IN /\ \A i \in 1..Len(tickLog) :
            tickLog[i] = "draw" =>
              /\ i > 2
              /\ tickLog[i - 1] = "clear"
              /\ tickLog[i - 2] = "update"
       /\ Steps28 \cap {"skip", "gate", "exit"} # {} =>
            Steps28 \cap {"clear", "draw"} = {}

\* C29: at every draw executed on a tick whose frame counter is c the runtime
\* holds frameCount = c, t = (c mod totalFrames) / totalFrames (totalFrames
\* defaults to 120) and time = tGlobal = t; the phase t lies in [0, 1), is 0
\* exactly when c is a multiple of totalFrames, and is the same for c and
\* c + totalFrames.  (t is held as its numerator over totalFrames.)
C29_TimingAtDraw ==
  [][LET AtDraw(runtime, c, given) ==
            LET totalFrames == IF given = Undefined THEN 120 ELSE given[1]
            IN /\ runtime.frameCount = c
               /\ runtime.t = c - totalFrames * (c \div totalFrames)
               /\ runtime.time = runtime.t /\ runtime.tGlobal = runtime.t
               /\ 0 <= runtime.t /\ runtime.t < totalFrames
               /\ runtime.t = 0 <=> \E k \in 0..c : c = k * totalFrames
               /\ Timing(runtime, c + totalFrames, totalFrames).t = runtime.t
     IN /\ \A e \in Engines :
             (/\ EngineTick /\ Head(frameQueue).loop.owner = e
              /\ engine'[e].drawCalls = engine[e].drawCalls + 1) =>
               AtDraw(engine'[e].runtime, engine'[e].internalFrameCount,
                      engine[e].cfg.totalFrames)
        /\ \A r \in Renderers :
             (/\ CodeTick /\ Head(frameQueue).loop.owner = r
              /\ renderer'[r].drawCalls = renderer[r].drawCalls + 1) =>
               AtDraw(renderer'[r].runtime, Head(frameQueue).loop.frameCount + 1,
                      renderer[r].system.totalFrames)]_vars

\* an engine whose loop has 2 frames has drawn on tick 4, where the phase has
\* wrapped around to 0 for the second time
C29_Witness ==
  \E e \in Engines :
    /\ engine[e].built /\ engine[e].running
    /\ engine[e].cfg.totalFrames = <<2>>
    /\ engine[e].lastDrawTick = 4
    /\ engine[e].runtime.frameCount = 4 /\ engine[e].runtime.t = 0

C31_NameResolution ==
  call.fn = "read" =>
    LET name == call.args[1]
        compiled == call.args[2]
        runtimeRef == call.args[3]
        value == call.result.value
        static == {RuntimeKeys[i] : i \in 1..Len(RuntimeKeys)} \ liveProps
    IN /\ name \in liveProps =>
            /\ value.k = "number"
            /\ value.fc = runtimeRef[name]
       /\ name \in static => value = RuntimeValue(compiled, name)
       /\ name \in {"width", "height"} => value = NumberVal(compiled.width)
       /\ name \notin liveProps \cup static \cup {"__registerSetup", "__registerDraw"} =>
            /\ name \notin call.result.scope.knownKeys
            /\ value.k # "undefined"
            /\ name \in HostGlobals => value = Val("host", name, "", 0, FALSE)
            /\ name \notin HostGlobals => value.k = "ReferenceError"

C31_Witness ==
  /\ call.fn = "read"
  /\ call.args[1] = "frameCount"
  /\ call.args[2].frameCount = 0
  /\ call.args[3].frameCount = 3
  /\ call.result.value = NumberVal(3)

\* C32: for a renderer of renderCodeModeSystem in loop mode whose script has a
\* draw function, after any sequence of render(), start(), stop() and
\* destroy() with animation frames in between: at most one tick callback of
\* the renderer is registered, so at most one of its ticks (one drawFn call)
\* runs in a display frame, and a renderer that is stopped or destroyed has
\* no callback registered.
C32_SingleTickChain ==
  \A r \in Renderers :
    (renderer[r].built /\ renderer[r].drawFn.k # "null") =>
      /\ Cardinality(Registered("code", r)) <= 1
      /\ Cardinality(PendingOf(frameQueue, "code", r)) <= 1
      /\ (~renderer[r].isRunning \/ renderer[r].isDestroyed) => Registered("code", r) = {}

\* C33: among all PreviewEngine instances, whatever the interleaving of
\* startLoop, stopLoop, destroy, renderStatic, budget stops and
\* stopActivePreview(): at most one engine is running; a running engine is the
\* module-level activePreviewRenderer; startLoop() of engine B while engine A
\* runs leaves A stopped with its pending tick cancelled and B running; and
\* stopActivePreview() leaves no engine running.
C33_OneRunningEngine ==
  [][/\ Cardinality({e \in Engines : engine'[e].running}) <= 1
     /\ \A e \in Engines : engine'[e].running => activePreviewRenderer' = e
     /\ \A a, b \in Engines :
          (a # b /\ engine[a].running /\ StartLoop(b)) =>
            /\ ~engine'[a].running
            /\ engine'[a].animationFrameId = Null
            /\ PendingOf(rafQueue', "engine", a) = {}
            /\ PendingOf(frameQueue', "engine", a) = {}
            /\ engine'[b].running
            /\ Cardinality(PendingOf(rafQueue', "engine", b)) = 1
     /\ StopActivePreview =>
          /\ \A e \in Engines : ~engine'[e].running
          /\ activePreviewRenderer' = Null]_vars

C33_Witness ==
  /\ engine[1].loopStarted /\ ~engine[1].running
  /\ engine[1].animationFrameId = Null
  /\ engine[1].internalFrameCount = 1
  /\ engine[1].budgetExceededReason = "null"
  /\ engine[2].running /\ engine[2].internalFrameCount = 0
  /\ activePreviewRenderer = 2
  /\ Registered("engine", 1) = {}

\* C34: startLoop() on an engine that is running is a no-op: no tick is
\* requested, setup does not run again (the canvas is not painted), and the
\* frame counter, start timestamp, stride, exceeded reason and overlay are
\* unchanged; so every engine has at most one tick registered, and between
\* ticks isRendering() is true exactly when one tick is registered.
C34_StartLoopIdempotent ==
  [][/\ \A e \in Engines :
          (engine[e].running /\ StartLoop(e)) =>
            /\ engine' = engine
            /\ rafQueue' = rafQueue /\ frameQueue' = frameQueue /\ rafSeq' = rafSeq
            /\ buffer' = buffer
            /\ activePreviewRenderer' = activePreviewRenderer
            /\ lastCall'.warn = "none" /\ lastCall'.threw = "none"
     /\ \A e \in Engines :
          LET pending == PendingOf(rafQueue', "engine", e) \cup
                         {Len(rafQueue') + i : i \in PendingOf(frameQueue', "engine", e)}
          IN /\ Cardinality(pending) <= 1
             /\ engine'[e].running <=> Cardinality(pending) = 1]_vars

C34_Witness ==
  \E e \in Engines :
    /\ engine[e].running
    /\ engine[e].setupFn.k # "null"
    /\ engine[e].internalFrameCount = 2
    /\ engine[e].budgetExceededReason # "null"
    /\ engine[e].currentStride = DEGRADE_STRIDE
    /\ Cardinality(Registered("engine", e)) = 1

\* C35: for an engine with budgetBehavior 'stop' (given or by default), at
\* the end of every tick and whether the onBudgetExceeded callback returns or
\* throws: while an exceeded reason is recorded the loop is halted: running
\* is false, no tick is registered, and drawFn has not been invoked since the
\* reason was recorded.
C35_RecordedReasonMeansHalted ==
  \A e \in Engines :
    LET o == engine[e]
    IN (o.built /\ BehaviorOf(o.cfg) = "stop" /\ o.budgetExceededReason # "null") =>
         /\ ~o.running
         /\ Registered("engine", e) = {}
         /\ o.drawCalls = o.drawsBefore

\* C36: when a tick crosses the frame ceiling and the time ceiling together
\* the recorded reason is 'frame_limit'; a recorded reason changes only by
\* an effective startLoop(), which clears it; and on every tick of an engine
\* whose reason is recorded (a degraded loop crossing the other ceiling
\* later) the reason and the stride stay as they are.
C36_ReasonPriorityAndStability ==
  [][\A e \in Engines :
       LET o == engine[e]
           p == engine'[e]
           ticking == EngineTick /\ Head(frameQueue).loop.owner = e
       IN /\ (/\ ticking /\ o.running /\ o.budgetExceededReason = "null"
               /\ o.internalFrameCount + 1 >= Coalesce(o.cfg.maxFrames, MAX_FRAMES)
               /\ now - o.startTimeMs >= Coalesce(o.cfg.maxTimeMs, MAX_TOTAL_TIME_MS))
              => p.budgetExceededReason = "frame_limit"
          /\ (o.budgetExceededReason # "null" /\ p.budgetExceededReason # o.budgetExceededReason)
              => /\ StartLoop(e) /\ ~o.running
                 /\ p.budgetExceededReason = "null"
          /\ (ticking /\ o.budgetExceededReason # "null")
              => /\ p.budgetExceededReason = o.budgetExceededReason
                 /\ p.currentStride = o.currentStride
                 /\ p.notified = o.notified]_vars

\* a degraded loop stopped by the time ceiling on tick 2 that has since
\* crossed the frame ceiling (3) on tick 3
C36_Witness ==
  \E e \in Engines :
    /\ engine[e].cfg.budgetBehavior = "degrade"
    /\ engine[e].cfg.maxFrames = <<3>> /\ engine[e].cfg.maxTimeMs = <<100>>
    /\ engine[e].running
    /\ engine[e].internalFrameCount = 4
    /\ engine[e].budgetExceededReason = "time_limit"
    /\ engine[e].exceededAt = 2
    /\ engine[e].currentStride = DEGRADE_STRIDE

\* C37: an engine with budgetBehavior 'stop', maxFrames = M >= 1 and a
\* registered drawFn, on ticks where the time ceiling is not reached: a tick
\* that brings the frame counter to k < M invokes drawFn (the k-th call);
\* the tick that brings it to M records 'frame_limit' and does not invoke
\* drawFn, so that M - 1 calls have been made, on ticks 1..M-1, while
\* getPreviewStats().frames and the framesRendered given to onBudgetExceeded
\* are M.
C37_LastFrameNotDrawn ==
  [][\A e \in Engines :
       LET o == engine[e]
           p == engine'[e]
           M == Coalesce(o.cfg.maxFrames, MAX_FRAMES)
       IN (/\ EngineTick /\ Head(frameQueue).loop.owner = e
           /\ o.running /\ o.budgetExceededReason = "null"
           /\ o.cfg.budgetBehavior = "stop"
           /\ o.cfg.maxFrames # Undefined /\ M >= 1
           /\ o.drawFn.k # "null"
           /\ now - o.startTimeMs < Coalesce(o.cfg.maxTimeMs, MAX_TOTAL_TIME_MS))
          => /\ p.internalFrameCount = o.internalFrameCount + 1
             /\ p.internalFrameCount < M =>
                  /\ p.budgetExceededReason = "null"
                  /\ p.drawCalls = p.internalFrameCount
                  /\ p.lastDrawTick = p.internalFrameCount
             /\ p.internalFrameCount = M =>
                  /\ p.budgetExceededReason = "frame_limit"
                  /\ p.drawCalls = M - 1 /\ p.drawCalls = o.drawCalls
                  /\ p.lastDrawTick = M - 1
                  /\ getPreviewStats(p, now').frames = M
                  /\ p.exceededAt = M
                  /\ o.cfg.onBudgetExceeded # "undefined" => p.notified = 1
             /\ p.internalFrameCount <= M]_vars

C37_Witness ==
  \E e \in Engines :
    /\ engine[e].cfg.budgetBehavior = "stop"
    /\ engine[e].cfg.maxFrames = <<3>>
    /\ engine[e].cfg.onBudgetExceeded = "returns"
    /\ engine[e].drawFn.k # "null"
    /\ engine[e].internalFrameCount = 3
    /\ engine[e].budgetExceededReason = "frame_limit"
    /\ engine[e].exceededAt = 3 /\ engine[e].notified = 1
    /\ engine[e].drawCalls = 2 /\ engine[e].lastDrawTick = 2
    /\ ~engine[e].running

\* C38: renderStatic() on an engine whose loop is running leaves the budget
\* state of the loop as it was: start timestamp (so the elapsed time and the
\* tick at which the time ceiling is reached), frame counter, stride,
\* exceeded reason, running flag and registered tick.
C38_StaticLeavesLoopBudget ==
  [][\A e \in Engines :
       (engine[e].running /\ RenderStatic(e)) =>
         /\ engine'[e].startTimeMs = engine[e].startTimeMs
         /\ getPreviewStats(engine'[e], now').totalTimeMs =
              getPreviewStats(engine[e], now).totalTimeMs
         /\ engine'[e].internalFrameCount = engine[e].internalFrameCount
         /\ engine'[e].currentStride = engine[e].currentStride
         /\ engine'[e].budgetExceededReason = engine[e].budgetExceededReason
         /\ engine'[e].running
         /\ engine'[e].animationFrameId = engine[e].animationFrameId
         /\ rafQueue' = rafQueue /\ frameQueue' = frameQueue]_vars

\* C39: the single-owner policy is per surface.  renderCodeModeSystem on a
\* canvas leaves a renderer that is looping on another canvas untouched (not
\* destroyed, running, its tick registered as before); and startLoop() of
\* an engine leaves an engine that is looping on another canvas running with
\* its tick registered.
C39_OwnerPerSurface ==
  [][/\ \A a, b \in Renderers :
          (/\ a # b /\ RenderCodeModeSystem(b)
           /\ renderer[a].built /\ renderer[a].isRunning
           /\ renderer'[b].canvas # renderer[a].canvas)
          => /\ renderer'[a] = renderer[a]
             /\ PendingOf(rafQueue', "code", a) = PendingOf(rafQueue, "code", a)
     /\ \A a, b \in Engines :
          (/\ a # b /\ StartLoop(b)
           /\ engine[a].running /\ engine[b].built
           /\ engine[b].cfg.canvas # engine[a].cfg.canvas)
          => /\ engine'[a] = engine[a]
             /\ PendingOf(rafQueue', "engine", a) = PendingOf(rafQueue, "engine", a)]_vars

====
